---- MODULE Spec2Model ----
(***************************************************************************)
(* A model of glycospectrum/glycan_library.py: the monosaccharide mass     *)
(* table, composition parsing, the reference glycan libraries, Y-ion       *)
(* series generation, glycan identification from mass, and the crosslinker *)
(* library with its fragment generation and stub identification.           *)
(*                                                                         *)
(* Masses.  The source works in floating-point daltons; the model works in *)
(* exact fixed point.  Every mass literal of the source has four decimals, *)
(* so the glycan side (mass table, compositions, libraries, Y ions,        *)
(* identification) keeps masses as integers in units of 1e-4 Da:           *)
(* 203.0794 Da is 2030794.  The crosslink side also needs PROTON           *)
(* (1.007276 Da, six decimals) and keeps its masses in units of 4          *)
(* micro-dalton, the coarsest unit in which the four-decimal masses and    *)
(* PROTON are all whole numbers; its literals are written through Fine     *)
(* (from 1e-4 Da) and Micro (from 1e-6 Da).  Sums and differences are      *)
(* exact; the quotient of a charged m/z is rounded down to the unit.       *)
(*                                                                         *)
(* Strings.  A composition string is a sequence of atoms, each atom a      *)
(* piece of text made of one character class only (letters, digits or      *)
(* other); the text of the string is the concatenation of its atoms.  A    *)
(* dictionary key built by an f-string (name + suffix) is the sequence of  *)
(* its parts, so that endswith() and the `in' test on names can be         *)
(* computed.                                                               *)
(***************************************************************************)
EXTENDS Integers, Sequences, FiniteSets, TLC

VARIABLES
    pc,                     \* "idle": no call in progress; "done": a call has returned
    op,                     \* the operation last called
    args,                   \* its arguments
    result,                 \* the value it returned
    shared,                 \* the module-level tables, as they stand
    passed                  \* the arguments of the last call, as the call left them

vars == <<pc, op, args, result, shared, passed>>

-----------------------------------------------------------------------------
(* Units and generic helpers *)

\* a mass written in 1e-4 Da, in the crosslink unit of 4 micro-dalton
Fine(x) == x * 25

\* a mass written in micro-dalton (a multiple of 4), in the crosslink unit
Micro(x) == x \div 4

Abs(x) == IF x < 0 THEN -x ELSE x

Min(a, b) == IF a < b THEN a ELSE b

\* dict.get(k, default)
Get(d, k, default) == IF k \in DOMAIN d THEN d[k] ELSE default

\* d[k] = v on a dict
Put(d, k, v) == [x \in DOMAIN d \cup {k} |-> IF x = k THEN v ELSE d[x]]

EmptyDict == [x \in {} |-> 0]

\* an ordered dict is a sequence of <<key, value>> items
Keys(od) == {od[i][1] : i \in DOMAIN od}

Lookup(od, k) == od[CHOOSE i \in DOMAIN od : od[i][1] = k][2]

-----------------------------------------------------------------------------
(* MONOSACCHARIDE MASSES *)

MONOSACCHARIDE_MASSES ==
    [m \in {"Hex", "Man", "Glc", "Gal", "HexNAc", "GlcNAc", "GalNAc", "Fuc", "dHex",
            "NeuAc", "Sia", "NeuGc", "Xyl", "Pent", "HexA", "GlcA", "Kdn",
            "Sulfate", "Phosphate"} |->
        CASE m \in {"Hex", "Man", "Glc", "Gal"}      -> 1620528
          [] m \in {"HexNAc", "GlcNAc", "GalNAc"}    -> 2030794
          [] m \in {"Fuc", "dHex"}                   -> 1460579
          [] m \in {"NeuAc", "Sia"}                  -> 2910954
          [] m = "NeuGc"                             -> 3070903
          [] m \in {"Xyl", "Pent"}                   -> 1320423
          [] m \in {"HexA", "GlcA"}                  -> 1760321
          [] m = "Kdn"                               -> 2500689
          [] m = "Sulfate"                           -> 799568
          [] m = "Phosphate"                         -> 799663]

-----------------------------------------------------------------------------
(* GlycanComposition and from_string *)

GlycanComposition(name, composition, mass, glycan_type) ==
    [name |-> name, composition |-> composition, mass |-> mass,
     glycan_type |-> glycan_type]

\* the character classes of the pattern ([A-Za-z]+)(\d+)
AlphaAtoms == {"Hex", "HexNAc", "Man", "Xx", "Fuc", "NeuAc", "NeuGc"}

DigitVal ==
    ("0" :> 0) @@ ("1" :> 1) @@ ("2" :> 2) @@ ("3" :> 3) @@ ("4" :> 4) @@ ("5" :> 5)

OtherAtoms == {"-"}

IsAlpha(a) == a \in AlphaAtoms

IsDigit(a) == a \in DOMAIN DigitVal

\* the first index >= i of s whose atom is not of class P (Len(s)+1 if none):
\* the end of a greedy [..]+ run
RECURSIVE AlphaRunEnd(_, _)
AlphaRunEnd(s, i) ==
    IF i <= Len(s) /\ IsAlpha(s[i]) THEN AlphaRunEnd(s, i + 1) ELSE i

RECURSIVE DigitRunEnd(_, _)
DigitRunEnd(s, i) ==
    IF i <= Len(s) /\ IsDigit(s[i]) THEN DigitRunEnd(s, i + 1) ELSE i

\* the text of s[i..j-1]
RECURSIVE Text(_, _, _)
Text(s, i, j) == IF i >= j THEN "" ELSE s[i] \o Text(s, i + 1, j)

\* a variant of IntOf that reads one digit only, the last of the run
IntOfLastDigit(s, j, k) ==
    IF j >= k THEN 0 ELSE DigitVal[s[k - 1]]

\* int() of the digits s[j..k-1]
RECURSIVE IntOf(_, _, _)
IntOf(s, j, k) ==
    IF j >= k THEN 0 ELSE IntOf(s, j, k - 1) * 10 + DigitVal[s[k - 1]]

\* one attempt of the pattern at position i: <<j, k>> with group 1 = s[i..j-1]
\* and group 2 = s[j..k-1], or <<0, 0>> when the pattern does not match at i
MatchAt(s, i) ==
    LET j == AlphaRunEnd(s, i)
        k == DigitRunEnd(s, j)
    IN  IF j > i /\ k > j THEN <<j, k>> ELSE <<0, 0>>

\* a variant of FromStringStore in which an unknown symbol discards what was
\* parsed before it
FromStringStoreStrict(composition, mono, count) ==
    IF mono \in DOMAIN MONOSACCHARIDE_MASSES
    THEN Put(composition, mono, count)
    ELSE EmptyDict

\* a variant of FromStringStore that adds the count to the one stored before
FromStringStoreSummed(composition, mono, count) ==
    IF mono \in DOMAIN MONOSACCHARIDE_MASSES
    THEN Put(composition, mono, Get(composition, mono, 0) + count)
    ELSE composition

\* composition[mono] = count if mono is a known symbol
FromStringStore(composition, mono, count) ==
    IF mono \in DOMAIN MONOSACCHARIDE_MASSES
    THEN Put(composition, mono, count)
    ELSE composition

\* the loop over re.finditer(pattern, comp_string), scanning from position i
RECURSIVE FromStringLoop(_, _, _)
FromStringLoop(s, i, composition) ==
    IF i > Len(s) THEN composition
    ELSE LET m == MatchAt(s, i)
         IN  IF m[1] = 0
             THEN FromStringLoop(s, i + 1, composition)
             ELSE FromStringLoop(s, m[2],
                      FromStringStore(composition, Text(s, i, m[1]),
                                      IntOf(s, m[1], m[2])))

\* sum(MONOSACCHARIDE_MASSES[mono] * count for mono, count in composition.items())
RECURSIVE SumItems(_, _)
SumItems(composition, monos) ==
    IF monos = {} THEN 0
    ELSE LET mono == CHOOSE x \in monos : TRUE
         IN  MONOSACCHARIDE_MASSES[mono] * composition[mono]
               + SumItems(composition, monos \ {mono})

CompositionMass(composition) == SumItems(composition, DOMAIN composition)

from_string(comp_string, name, glycan_type) ==
    LET composition == FromStringLoop(comp_string, 1, EmptyDict)
    IN  GlycanComposition(
            IF name # "" THEN name ELSE Text(comp_string, 1, Len(comp_string) + 1),
            composition, CompositionMass(composition), glycan_type)

get_glycan_mass(composition_string) ==
    from_string(composition_string, "", "unknown").mass

-----------------------------------------------------------------------------
(* Reference libraries: ordered dicts, as sequences of <<key, GlycanComposition>> *)

O_GLYCAN_COMPOSITIONS ==
    <<
      <<"O-GlcNAc", GlycanComposition("O-GlcNAc",
            ("HexNAc" :> 1),
            2030794, "O-GlcNAc")>>,
      <<"O-GalNAc", GlycanComposition("O-GalNAc",
            ("HexNAc" :> 1),
            2030794, "O-GalNAc")>>,
      <<"Tn", GlycanComposition("Tn",
            ("HexNAc" :> 1),
            2030794, "O-glycan")>>,
      <<"Core1", GlycanComposition("Core1",
            ("HexNAc" :> 1) @@ ("Hex" :> 1),
            3651322, "O-glycan")>>,
      <<"T-antigen", GlycanComposition("T-antigen",
            ("HexNAc" :> 1) @@ ("Hex" :> 1),
            3651322, "O-glycan")>>,
      <<"Core2", GlycanComposition("Core2",
            ("HexNAc" :> 2) @@ ("Hex" :> 1),
            5682116, "O-glycan")>>,
      <<"Core3", GlycanComposition("Core3",
            ("HexNAc" :> 2),
            4061588, "O-glycan")>>,
      <<"Core4", GlycanComposition("Core4",
            ("HexNAc" :> 3),
            6092382, "O-glycan")>>,
      <<"HexNAc1NeuAc1", GlycanComposition("Sialyl-Tn",
            ("HexNAc" :> 1) @@ ("NeuAc" :> 1),
            4941748, "O-glycan")>>,
      <<"Sialyl-Tn", GlycanComposition("Sialyl-Tn",
            ("HexNAc" :> 1) @@ ("NeuAc" :> 1),
            4941748, "O-glycan")>>,
      <<"HexNAc1Hex1NeuAc1", GlycanComposition("Sialyl-T",
            ("HexNAc" :> 1) @@ ("Hex" :> 1) @@ ("NeuAc" :> 1),
            6562276, "O-glycan")>>,
      <<"Sialyl-T", GlycanComposition("Sialyl-T",
            ("HexNAc" :> 1) @@ ("Hex" :> 1) @@ ("NeuAc" :> 1),
            6562276, "O-glycan")>>,
      <<"Sialyl-Core1", GlycanComposition("Sialyl-Core1",
            ("HexNAc" :> 1) @@ ("Hex" :> 1) @@ ("NeuAc" :> 1),
            6562276, "O-glycan")>>,
      <<"HexNAc2Hex2", GlycanComposition("HexNAc2Hex2",
            ("HexNAc" :> 2) @@ ("Hex" :> 2),
            7302644, "O-glycan")>>,
      <<"HexNAc2Hex1NeuAc1", GlycanComposition("HexNAc2Hex1NeuAc1",
            ("HexNAc" :> 2) @@ ("Hex" :> 1) @@ ("NeuAc" :> 1),
            8593070, "O-glycan")>>,
      <<"HexNAc1Hex1NeuAc2", GlycanComposition("Disialyl-T",
            ("HexNAc" :> 1) @@ ("Hex" :> 1) @@ ("NeuAc" :> 2),
            9473230, "O-glycan")>>,
      <<"Disialyl-T", GlycanComposition("Disialyl-T",
            ("HexNAc" :> 1) @@ ("Hex" :> 1) @@ ("NeuAc" :> 2),
            9473230, "O-glycan")>>,
      <<"HexNAc2Hex2NeuAc1", GlycanComposition("HexNAc2Hex2NeuAc1",
            ("HexNAc" :> 2) @@ ("Hex" :> 2) @@ ("NeuAc" :> 1),
            10213598, "O-glycan")>>,
      <<"HexNAc2Hex2Fuc1NeuAc1", GlycanComposition("HexNAc2Hex2Fuc1NeuAc1",
            ("HexNAc" :> 2) @@ ("Hex" :> 2) @@ ("Fuc" :> 1) @@ ("NeuAc" :> 1),
            11674177, "O-glycan")>>,
      <<"HexNAc2Hex2NeuAc2", GlycanComposition("HexNAc2Hex2NeuAc2",
            ("HexNAc" :> 2) @@ ("Hex" :> 2) @@ ("NeuAc" :> 2),
            13124552, "O-glycan")>>,
      <<"HexNAc2Hex2Fuc1NeuAc2", GlycanComposition("HexNAc2Hex2Fuc1NeuAc2",
            ("HexNAc" :> 2) @@ ("Hex" :> 2) @@ ("Fuc" :> 1) @@ ("NeuAc" :> 2),
            14585131, "O-glycan")>>,
      <<"HexNAc1NeuGc1", GlycanComposition("HexNAc1NeuGc1",
            ("HexNAc" :> 1) @@ ("NeuGc" :> 1),
            5101697, "O-glycan")>>,
      <<"HexNAc1Hex1NeuGc1", GlycanComposition("HexNAc1Hex1NeuGc1",
            ("HexNAc" :> 1) @@ ("Hex" :> 1) @@ ("NeuGc" :> 1),
            6722225, "O-glycan")>>,
      <<"HexNAc1-Phosphate", GlycanComposition("HexNAc1-Phosphate",
            ("HexNAc" :> 1) @@ ("Phosphate" :> 1),
            2830457, "O-glycan")>>,
      <<"HexNAc1Hex1-Phosphate", GlycanComposition("HexNAc1Hex1-Phosphate",
            ("HexNAc" :> 1) @@ ("Hex" :> 1) @@ ("Phosphate" :> 1),
            4450985, "O-glycan")>>,
      <<"HexNAc1-Sulfate", GlycanComposition("HexNAc1-Sulfate",
            ("HexNAc" :> 1) @@ ("Sulfate" :> 1),
            2830362, "O-glycan")>>,
      <<"HexNAc1Hex1-Sulfate", GlycanComposition("HexNAc1Hex1-Sulfate",
            ("HexNAc" :> 1) @@ ("Hex" :> 1) @@ ("Sulfate" :> 1),
            4450890, "O-glycan")>>,
      <<"HexNAc2Hex2-Sulfate", GlycanComposition("HexNAc2Hex2-Sulfate",
            ("HexNAc" :> 2) @@ ("Hex" :> 2) @@ ("Sulfate" :> 1),
            8102212, "O-glycan")>>
    >>

N_GLYCAN_COMPOSITIONS ==
    <<
      <<"Core", GlycanComposition("N-glycan Core",
            ("HexNAc" :> 2) @@ ("Hex" :> 3),
            8923170, "N-glycan")>>,
      <<"Man5", GlycanComposition("Man5",
            ("HexNAc" :> 2) @@ ("Hex" :> 5),
            12164226, "N-glycan")>>,
      <<"Man6", GlycanComposition("Man6",
            ("HexNAc" :> 2) @@ ("Hex" :> 6),
            13784754, "N-glycan")>>,
      <<"Man7", GlycanComposition("Man7",
            ("HexNAc" :> 2) @@ ("Hex" :> 7),
            15405282, "N-glycan")>>,
      <<"Man8", GlycanComposition("Man8",
            ("HexNAc" :> 2) @@ ("Hex" :> 8),
            17025810, "N-glycan")>>,
      <<"Man9", GlycanComposition("Man9",
            ("HexNAc" :> 2) @@ ("Hex" :> 9),
            18646338, "N-glycan")>>,
      <<"A2", GlycanComposition("A2",
            ("HexNAc" :> 4) @@ ("Hex" :> 5),
            16225814, "N-glycan")>>,
      <<"A2F", GlycanComposition("A2F",
            ("HexNAc" :> 4) @@ ("Hex" :> 5) @@ ("Fuc" :> 1),
            17686393, "N-glycan")>>,
      <<"A2G2", GlycanComposition("A2G2",
            ("HexNAc" :> 4) @@ ("Hex" :> 5),
            16225814, "N-glycan")>>,
      <<"A2G2F", GlycanComposition("A2G2F",
            ("HexNAc" :> 4) @@ ("Hex" :> 5) @@ ("Fuc" :> 1),
            17686393, "N-glycan")>>,
      <<"A2G2S1", GlycanComposition("A2G2S1",
            ("HexNAc" :> 4) @@ ("Hex" :> 5) @@ ("NeuAc" :> 1),
            19136768, "N-glycan")>>,
      <<"A2G2S2", GlycanComposition("A2G2S2",
            ("HexNAc" :> 4) @@ ("Hex" :> 5) @@ ("NeuAc" :> 2),
            22047722, "N-glycan")>>,
      <<"A2G2FS1", GlycanComposition("A2G2FS1",
            ("HexNAc" :> 4) @@ ("Hex" :> 5) @@ ("Fuc" :> 1) @@ ("NeuAc" :> 1),
            20597347, "N-glycan")>>,
      <<"A2G2FS2", GlycanComposition("A2G2FS2",
            ("HexNAc" :> 4) @@ ("Hex" :> 5) @@ ("Fuc" :> 1) @@ ("NeuAc" :> 2),
            23508301, "N-glycan")>>
    >>

-----------------------------------------------------------------------------
(* Y ION SERIES GENERATION.  A Y-ion dict maps names to neutral masses; a    *)
(* name is the sequence of its parts, <<"Y0">> or <<"Y0", "-H2O">>.          *)

TMT_MASS_DEFAULT == 2291629

WATER == 180106

\* name.endswith('-H2O')
EndsWithH2O(name) == name[Len(name)] = "-H2O"

\* sum(comp.values())
RECURSIVE SumValues(_, _)
SumValues(comp, monos) ==
    IF monos = {} THEN 0
    ELSE LET mono == CHOOSE x \in monos : TRUE
         IN  comp[mono] + SumValues(comp, monos \ {mono})

\* a variant of the loop body that writes Y1 at i = 1 whatever the composition
YLadderStepY1Always(y_ions, i, glycan, peptide_mass) ==
    LET comp == glycan.composition
        hexnac == MONOSACCHARIDE_MASSES["HexNAc"]
        y1 == IF i = 1
              THEN Put(y_ions, <<"Y1">>, peptide_mass + hexnac)
              ELSE y_ions
        y2 == IF i = 2 /\ Get(comp, "HexNAc", 0) >= 2
              THEN Put(y1, <<"Y2">>, peptide_mass + 2 * hexnac)
              ELSE y1
        core_mass == 2 * hexnac + 3 * MONOSACCHARIDE_MASSES["Hex"]
        yc == Put(y2, <<"Y(core)">>, peptide_mass + core_mass)
    IN  IF glycan.glycan_type = "N-glycan"
           /\ Get(comp, "HexNAc", 0) >= 2 /\ Get(comp, "Hex", 0) >= 3
        THEN IF Get(comp, "Fuc", 0) >= 1
             THEN Put(yc, <<"Y(core+F)">>,
                      peptide_mass + core_mass + MONOSACCHARIDE_MASSES["Fuc"])
             ELSE yc
        ELSE y2

\* the body of `for i in range(1, total_mono + 1)'
YLadderStep(y_ions, i, glycan, peptide_mass) ==
    LET comp == glycan.composition
        hexnac == MONOSACCHARIDE_MASSES["HexNAc"]
        y1 == IF i = 1 /\ "HexNAc" \in DOMAIN comp
              THEN Put(y_ions, <<"Y1">>, peptide_mass + hexnac)
              ELSE y_ions
        y2 == IF i = 2 /\ Get(comp, "HexNAc", 0) >= 2
              THEN Put(y1, <<"Y2">>, peptide_mass + 2 * hexnac)
              ELSE y1
        core_mass == 2 * hexnac + 3 * MONOSACCHARIDE_MASSES["Hex"]
        yc == Put(y2, <<"Y(core)">>, peptide_mass + core_mass)
    IN  IF glycan.glycan_type = "N-glycan"
           /\ Get(comp, "HexNAc", 0) >= 2 /\ Get(comp, "Hex", 0) >= 3
        THEN IF Get(comp, "Fuc", 0) >= 1
             THEN Put(yc, <<"Y(core+F)">>,
                      peptide_mass + core_mass + MONOSACCHARIDE_MASSES["Fuc"])
             ELSE yc
        ELSE y2

RECURSIVE YLadder(_, _, _, _, _)
YLadder(y_ions, i, total_mono, glycan, peptide_mass) ==
    IF i > total_mono THEN y_ions
    ELSE YLadder(YLadderStep(y_ions, i, glycan, peptide_mass), i + 1, total_mono,
                 glycan, peptide_mass)

\* for name, mass in list(y_ions.items()): if not name.endswith('-H2O'): ...
\* (the items are a snapshot: `snapshot' keeps the masses read, `names' the
\* items still to visit)
RECURSIVE YWaterLoss(_, _, _)
YWaterLoss(y_ions, snapshot, names) ==
    IF names = {} THEN y_ions
    ELSE LET name == CHOOSE x \in names : TRUE
         IN  YWaterLoss(IF ~EndsWithH2O(name)
                        THEN Put(y_ions, Append(name, "-H2O"), snapshot[name] - WATER)
                        ELSE y_ions,
                        snapshot, names \ {name})

\* a variant of YSimple that writes the intact ion under Y(intact)
YSimpleAsIntact(y0, glycan_mass, peptide_mass, include_water_loss) ==
    LET y1 == Put(y0, <<"Y(intact)">>, peptide_mass + glycan_mass)
    IN  IF include_water_loss
        THEN Put(y1, <<"Y(intact)", "-H2O">>, peptide_mass + glycan_mass - WATER)
        ELSE y1

\* the branch for the single-monosaccharide types
YSimple(y0, glycan_mass, peptide_mass, include_water_loss) ==
    LET y1 == Put(y0, <<"Y1">>, peptide_mass + glycan_mass)
    IN  IF include_water_loss
        THEN Put(y1, <<"Y1", "-H2O">>, peptide_mass + glycan_mass - WATER)
        ELSE y1

\* a variant of YComposite that adds the water losses before Y(intact)
YCompositeWaterLossFirst(y0, glycan, glycan_mass, peptide_mass, include_water_loss) ==
    LET comp == glycan.composition
        ladder == YLadder(y0, 1, SumValues(comp, DOMAIN comp), glycan, peptide_mass)
        lost == IF include_water_loss THEN YWaterLoss(ladder, ladder, DOMAIN ladder) ELSE ladder
    IN  Put(lost, <<"Y(intact)">>, peptide_mass + glycan_mass)

\* the branch for complex O-glycans and N-glycans
YComposite(y0, glycan, glycan_mass, peptide_mass, include_water_loss) ==
    LET comp == glycan.composition
        ladder == YLadder(y0, 1, SumValues(comp, DOMAIN comp), glycan, peptide_mass)
        full == Put(ladder, <<"Y(intact)">>, peptide_mass + glycan_mass)
    IN  IF include_water_loss THEN YWaterLoss(full, full, DOMAIN full) ELSE full

generate_y_ion_series(glycan, peptide_mass, include_water_loss, tmt_on_glycan, tmt_mass) ==
    LET glycan_mass == IF tmt_on_glycan THEN glycan.mass + tmt_mass ELSE glycan.mass
        y == Put(EmptyDict, <<"Y0">>, peptide_mass)
        y0 == IF include_water_loss
              THEN Put(y, <<"Y0", "-H2O">>, peptide_mass - WATER)
              ELSE y
    IN  IF glycan.glycan_type \in {"O-GlcNAc", "O-GalNAc"}
        THEN YSimple(y0, glycan_mass, peptide_mass, include_water_loss)
        ELSE YComposite(y0, glycan, glycan_mass, peptide_mass, include_water_loss)

-----------------------------------------------------------------------------
(* N-GLYCAN Y IONS.  The parts of a name are its stem ("Y0", "Y(core)", *)
(* ...), "F", "S1" and "S2": <<"Y(core)", "F", "S1">> is Y(core)FS1.          *)

\* 'core' in name
ContainsCore(name) == \E i \in DOMAIN name : name[i] \in {"Y(core)", "Y(core+1arm)"}

\* 'bi' in name
ContainsBi(name) == \E i \in DOMAIN name : name[i] = "Y(bi)"

\* 'S' in name
ContainsS(name) == \E i \in DOMAIN name : name[i] \in {"S1", "S2"}

\* a variant of PutWithFucose that does not read include_fucose_variants
PutWithFucoseAlways(y_ions, stem, mass, n_fuc, include_fucose_variants) ==
    LET y == Put(y_ions, <<stem>>, mass)
    IN  IF n_fuc >= 1
        THEN Put(y, <<stem, "F">>, mass + MONOSACCHARIDE_MASSES["Fuc"])
        ELSE y

\* y_ions[stem] = mass, and y_ions[stem + 'F'] = mass + fuc_mass
\* if n_fuc >= 1 and include_fucose_variants
PutWithFucose(y_ions, stem, mass, n_fuc, include_fucose_variants) ==
    LET y == Put(y_ions, <<stem>>, mass)
    IN  IF n_fuc >= 1 /\ include_fucose_variants
        THEN Put(y, <<stem, "F">>, mass + MONOSACCHARIDE_MASSES["Fuc"])
        ELSE y

\* for name, mass in list(y_ions.items()):
\*     if 'core' in name or 'bi' in name: y_ions[f'{name}S1'] = mass + neuac_mass
RECURSIVE AddS1(_, _, _)
AddS1(y_ions, snapshot, names) ==
    IF names = {} THEN y_ions
    ELSE LET name == CHOOSE x \in names : TRUE
         IN  AddS1(IF ContainsCore(name) \/ ContainsBi(name)
                   THEN Put(y_ions, Append(name, "S1"),
                            snapshot[name] + MONOSACCHARIDE_MASSES["NeuAc"])
                   ELSE y_ions,
                   snapshot, names \ {name})

\* a variant of AddS2 without the test 'S' not in name
RECURSIVE AddS2OnSialylated(_, _, _)
AddS2OnSialylated(y_ions, snapshot, names) ==
    IF names = {} THEN y_ions
    ELSE LET name == CHOOSE x \in names : TRUE
         IN  AddS2OnSialylated(IF ContainsCore(name) \/ ContainsBi(name)
                               THEN Put(y_ions, Append(name, "S2"),
                                        snapshot[name] + 2 * MONOSACCHARIDE_MASSES["NeuAc"])
                               ELSE y_ions,
                               snapshot, names \ {name})

\* for name, mass in list(y_ions.items()):
\*     if ('core' in name or 'bi' in name) and 'S' not in name:
\*         y_ions[f'{name}S2'] = mass + 2 * neuac_mass
RECURSIVE AddS2(_, _, _)
AddS2(y_ions, snapshot, names) ==
    IF names = {} THEN y_ions
    ELSE LET name == CHOOSE x \in names : TRUE
         IN  AddS2(IF (ContainsCore(name) \/ ContainsBi(name)) /\ ~ContainsS(name)
                   THEN Put(y_ions, Append(name, "S2"),
                            snapshot[name] + 2 * MONOSACCHARIDE_MASSES["NeuAc"])
                   ELSE y_ions,
                   snapshot, names \ {name})

\* the sialylated variants
AddSialylated(y_ions, n_neuac) ==
    IF n_neuac >= 1
    THEN LET s1 == AddS1(y_ions, y_ions, DOMAIN y_ions)
         IN  IF n_neuac >= 2 THEN AddS2(s1, s1, DOMAIN s1) ELSE s1
    ELSE y_ions

\* total_mass: the four monosaccharides the function reads
TotalMass(glycan_composition) ==
    Get(glycan_composition, "HexNAc", 0) * MONOSACCHARIDE_MASSES["HexNAc"]
        + Get(glycan_composition, "Hex", 0) * MONOSACCHARIDE_MASSES["Hex"]
        + Get(glycan_composition, "Fuc", 0) * MONOSACCHARIDE_MASSES["Fuc"]
        + Get(glycan_composition, "NeuAc", 0) * MONOSACCHARIDE_MASSES["NeuAc"]

\* a variant that emits Y3 whenever the chitobiose is there, mannose or not
generate_n_glycan_y_ions_y3_without_hex(glycan_composition, peptide_mass, include_fucose_variants) ==
    LET n_hexnac == Get(glycan_composition, "HexNAc", 0)
        n_hex == Get(glycan_composition, "Hex", 0)
        n_fuc == Get(glycan_composition, "Fuc", 0)
        n_neuac == Get(glycan_composition, "NeuAc", 0)
        hex_mass == MONOSACCHARIDE_MASSES["Hex"]
        hexnac_mass == MONOSACCHARIDE_MASSES["HexNAc"]
        y0 == Put(EmptyDict, <<"Y0">>, peptide_mass)
        y1 == IF n_hexnac >= 1
              THEN PutWithFucose(y0, "Y1", peptide_mass + hexnac_mass,
                                 n_fuc, include_fucose_variants)
              ELSE y0
        y2 == IF n_hexnac >= 2
              THEN PutWithFucose(y1, "Y2", peptide_mass + 2 * hexnac_mass,
                                 n_fuc, include_fucose_variants)
              ELSE y1
        y3 == IF n_hexnac >= 2
              THEN PutWithFucose(y2, "Y3", peptide_mass + 2 * hexnac_mass + hex_mass,
                                 n_fuc, include_fucose_variants)
              ELSE y2
        y4 == IF n_hexnac >= 2 /\ n_hex >= 2
              THEN PutWithFucose(y3, "Y4", peptide_mass + 2 * hexnac_mass + 2 * hex_mass,
                                 n_fuc, include_fucose_variants)
              ELSE y3
        core == IF n_hexnac >= 2 /\ n_hex >= 3
                THEN PutWithFucose(y4, "Y(core)",
                                   peptide_mass + (2 * hexnac_mass + 3 * hex_mass),
                                   n_fuc, include_fucose_variants)
                ELSE y4
        arm == IF n_hexnac >= 3 /\ n_hex >= 3
               THEN PutWithFucose(core, "Y(core+1arm)",
                                  peptide_mass + 3 * hexnac_mass + 4 * hex_mass,
                                  n_fuc, include_fucose_variants)
               ELSE core
        bi == IF n_hexnac >= 4 /\ n_hex >= 5
              THEN PutWithFucose(arm, "Y(bi)",
                                 peptide_mass + 4 * hexnac_mass + 5 * hex_mass,
                                 n_fuc, include_fucose_variants)
              ELSE arm
        sialylated == AddSialylated(bi, n_neuac)
    IN  Put(sialylated, <<"Y(intact)">>, peptide_mass + TotalMass(glycan_composition))

generate_n_glycan_y_ions(glycan_composition, peptide_mass, include_fucose_variants) ==
    LET n_hexnac == Get(glycan_composition, "HexNAc", 0)
        n_hex == Get(glycan_composition, "Hex", 0)
        n_fuc == Get(glycan_composition, "Fuc", 0)
        n_neuac == Get(glycan_composition, "NeuAc", 0)
        hex_mass == MONOSACCHARIDE_MASSES["Hex"]
        hexnac_mass == MONOSACCHARIDE_MASSES["HexNAc"]
        y0 == Put(EmptyDict, <<"Y0">>, peptide_mass)
        y1 == IF n_hexnac >= 1
              THEN PutWithFucose(y0, "Y1", peptide_mass + hexnac_mass,
                                 n_fuc, include_fucose_variants)
              ELSE y0
        y2 == IF n_hexnac >= 2
              THEN PutWithFucose(y1, "Y2", peptide_mass + 2 * hexnac_mass,
                                 n_fuc, include_fucose_variants)
              ELSE y1
        y3 == IF n_hexnac >= 2 /\ n_hex >= 1
              THEN PutWithFucose(y2, "Y3", peptide_mass + 2 * hexnac_mass + hex_mass,
                                 n_fuc, include_fucose_variants)
              ELSE y2
        y4 == IF n_hexnac >= 2 /\ n_hex >= 2
              THEN PutWithFucose(y3, "Y4", peptide_mass + 2 * hexnac_mass + 2 * hex_mass,
                                 n_fuc, include_fucose_variants)
              ELSE y3
        core == IF n_hexnac >= 2 /\ n_hex >= 3
                THEN PutWithFucose(y4, "Y(core)",
                                   peptide_mass + (2 * hexnac_mass + 3 * hex_mass),
                                   n_fuc, include_fucose_variants)
                ELSE y4
        arm == IF n_hexnac >= 3 /\ n_hex >= 3
               THEN PutWithFucose(core, "Y(core+1arm)",
                                  peptide_mass + 3 * hexnac_mass + 4 * hex_mass,
                                  n_fuc, include_fucose_variants)
               ELSE core
        bi == IF n_hexnac >= 4 /\ n_hex >= 5
              THEN PutWithFucose(arm, "Y(bi)",
                                 peptide_mass + 4 * hexnac_mass + 5 * hex_mass,
                                 n_fuc, include_fucose_variants)
              ELSE arm
        sialylated == AddSialylated(bi, n_neuac)
    IN  Put(sialylated, <<"Y(intact)">>, peptide_mass + TotalMass(glycan_composition))

-----------------------------------------------------------------------------
(* GLYCAN IDENTIFICATION FROM MASS *)

\* a variant of ScanLibrary with the strict comparison error < tolerance_da
RECURSIVE ScanLibraryStrict(_, _, _, _, _)
ScanLibraryStrict(lib, i, mass, tolerance_da, matches) ==
    IF i > Len(lib) THEN matches
    ELSE LET error == Abs(mass - lib[i][2].mass)
         IN  ScanLibraryStrict(lib, i + 1, mass, tolerance_da,
                               IF error < tolerance_da
                               THEN Append(matches, <<lib[i][1], lib[i][2], error>>)
                               ELSE matches)

\* the scan of one reference library: matches.append((name, glycan, error))
RECURSIVE ScanLibrary(_, _, _, _, _)
ScanLibrary(lib, i, mass, tolerance_da, matches) ==
    IF i > Len(lib) THEN matches
    ELSE LET error == Abs(mass - lib[i][2].mass)
         IN  ScanLibrary(lib, i + 1, mass, tolerance_da,
                         IF error <= tolerance_da
                         THEN Append(matches, <<lib[i][1], lib[i][2], error>>)
                         ELSE matches)

\* sorted(matches, key=lambda x: x[2]): a stable sort, so x goes behind every
\* item whose key is not greater
RECURSIVE InsertByError(_, _)
InsertByError(sorted, x) ==
    IF sorted = <<>> THEN <<x>>
    ELSE LET last == sorted[Len(sorted)]
         IN  IF last[3] <= x[3]
             THEN Append(sorted, x)
             ELSE Append(InsertByError(SubSeq(sorted, 1, Len(sorted) - 1), x), last)

RECURSIVE SortedByError(_)
SortedByError(matches) ==
    IF matches = <<>> THEN <<>>
    ELSE InsertByError(SortedByError(SubSeq(matches, 1, Len(matches) - 1)),
                       matches[Len(matches)])

identify_glycan_from_mass(mass, tolerance_da, glycan_type) ==
    LET o == IF glycan_type \in {"O-glycan", "all"}
             THEN ScanLibrary(O_GLYCAN_COMPOSITIONS, 1, mass, tolerance_da, <<>>)
             ELSE <<>>
        n == IF glycan_type \in {"N-glycan", "all"}
             THEN ScanLibrary(N_GLYCAN_COMPOSITIONS, 1, mass, tolerance_da, o)
             ELSE o
    IN  SortedByError(n)

-----------------------------------------------------------------------------
(* CROSSLINKER SUPPORT.  Masses of this section are in units of 4 micro-     *)
(* dalton.  stub_masses and diagnostic_ions are ordered dicts (sequences of  *)
(* <<name, mass>> items); spacer_length is in tenths of an Angstrom.         *)

Crosslinker(name, formula, intact_mass, spacer_length, cleavable, reactive_groups, stub_masses, diagnostic_ions) ==
    [name |-> name, formula |-> formula, intact_mass |-> intact_mass,
     spacer_length |-> spacer_length, cleavable |-> cleavable,
     reactive_groups |-> reactive_groups, stub_masses |-> stub_masses,
     diagnostic_ions |-> diagnostic_ions]

DSSO ==
    Crosslinker("DSSO", "C14H18N2O9S", Fine(1580038), 101, TRUE, "NHS",
        << <<"alkene", Fine(540106)>>, <<"thiol", Fine(859826)>>,
           <<"sulfenic", Fine(1039932)>> >>,
        << <<"A-T_diff", Fine(319720)>>, <<"reporter_104", Fine(1040170)>>,
           <<"reporter_122", Fine(1220276)>> >>)

DSBSO ==
    Crosslinker("DSBSO", "C11H16N2O6S2", Fine(3080388), 125, TRUE, "NHS",
        << <<"alkene", Fine(540106)>>, <<"thiol", Fine(859826)>>,
           <<"sulfenic", Fine(1039932)>>, <<"ETHMP", Fine(2260144)>> >>,
        << <<"A-T_diff", Fine(319720)>>,
           <<"D12_ETHMP_alkene_diff", Fine(2260100)>> >>)

\* a variant of BS3 that carries the DSSO stub table
BS3WithStubs ==
    Crosslinker("BS3", "C16H18N2O14S2", Fine(1380681), 114, FALSE, "NHS",
        << <<"alkene", Fine(540106)>>, <<"thiol", Fine(859826)>>,
           <<"sulfenic", Fine(1039932)>> >>, <<>>)

BS3 ==
    Crosslinker("BS3", "C16H18N2O14S2", Fine(1380681), 114, FALSE, "NHS", <<>>, <<>>)

DSS ==
    Crosslinker("DSS", "C16H20N2O8", Fine(1380681), 114, FALSE, "NHS", <<>>, <<>>)

CROSSLINKERS ==
    << <<"DSSO", DSSO>>, <<"DSBSO", DSBSO>>, <<"BS3", BS3>>, <<"DSS", DSS>> >>

-----------------------------------------------------------------------------
(* CROSSLINKED PEPTIDE FRAGMENTATION.  A fragment dict maps names to masses; *)
(* a name is the sequence of its parts: <<"α-A">>, <<"α-A", "+2">>,          *)
(* <<"α-A", "-H2O">>.                                                        *)

PROTON == Micro(1007276)

H2O == Fine(180106)

NH3 == Fine(170265)

\* the part f'+{charge}' of a name
ChargePart(charge) == "+" \o ToString(charge)

\* '+' in part: of the parts a name is built from, the charge parts alone hold
\* '+', and range(1, min(precursor_charge, 4)) yields no charge above 3
PartHasPlus(part) == \E charge \in 1..3 : part = ChargePart(charge)

\* '+' in name
HasPlus(name) == \E i \in DOMAIN name : PartHasPlus(name[i])

\* stub_masses.get(stub, 0)
StubGet(stub_masses, stub) ==
    IF stub \in Keys(stub_masses) THEN Lookup(stub_masses, stub) ELSE 0

\* (mass + charge * PROTON) / charge
ChargedMz(mass, charge) == (mass + charge * PROTON) \div charge

\* for name, mass in list(d.items()): d[f'{name}+{charge}'] = ...
\* (a snapshot of the items, taken before the first insertion)
RECURSIVE AddCharged(_, _, _, _)
AddCharged(d, snapshot, names, charge) ==
    IF names = {} THEN d
    ELSE LET name == CHOOSE x \in names : TRUE
         IN  AddCharged(Put(d, Append(name, ChargePart(charge)),
                            ChargedMz(snapshot[name], charge)),
                        snapshot, names \ {name}, charge)

\* for charge in range(1, min(precursor_charge, 4)), from `charge' on
RECURSIVE ChargedVersions(_, _, _)
ChargedVersions(d, charge, precursor_charge) ==
    IF charge >= Min(precursor_charge, 4) THEN d
    ELSE ChargedVersions(AddCharged(d, d, DOMAIN d, charge), charge + 1,
                         precursor_charge)

\* a variant of the neutral-loss loop without the test '+' not in name
RECURSIVE AddNeutralLossesToAll(_, _, _)
AddNeutralLossesToAll(d, snapshot, names) ==
    IF names = {} THEN d
    ELSE LET name == CHOOSE x \in names : TRUE
             d1 == Put(d, Append(name, "-H2O"), snapshot[name] - H2O)
             d2 == Put(d1, Append(name, "-NH3"), snapshot[name] - NH3)
         IN  AddNeutralLossesToAll(d2, snapshot, names \ {name})

\* the neutral-loss loop over one peptide's snapshot
RECURSIVE AddNeutralLosses(_, _, _)
AddNeutralLosses(d, snapshot, names) ==
    IF names = {} THEN d
    ELSE LET name == CHOOSE x \in names : TRUE
             d1 == Put(d, Append(name, "-H2O"), snapshot[name] - H2O)
             d2 == Put(d1, Append(name, "-NH3"), snapshot[name] - NH3)
         IN  AddNeutralLosses(IF ~HasPlus(name) THEN d2 ELSE d,
                              snapshot, names \ {name})

\* a variant of StubModified with the thiol and sulfenic masses exchanged
StubModifiedSwapped(prefix, peptide_mass, crosslinker) ==
    LET alkene == StubGet(crosslinker.stub_masses, "alkene")
        thiol == StubGet(crosslinker.stub_masses, "thiol")
        sulfenic == StubGet(crosslinker.stub_masses, "sulfenic")
    IN  Put(Put(Put(EmptyDict, <<prefix \o "-A">>, peptide_mass + alkene),
                <<prefix \o "-T">>, peptide_mass + sulfenic),
            <<prefix \o "-S">>, peptide_mass + thiol)

\* the three stub-modified neutral masses of one peptide
StubModified(prefix, peptide_mass, crosslinker) ==
    LET alkene == StubGet(crosslinker.stub_masses, "alkene")
        thiol == StubGet(crosslinker.stub_masses, "thiol")
        sulfenic == StubGet(crosslinker.stub_masses, "sulfenic")
    IN  Put(Put(Put(EmptyDict, <<prefix \o "-A">>, peptide_mass + alkene),
                <<prefix \o "-T">>, peptide_mass + thiol),
            <<prefix \o "-S">>, peptide_mass + sulfenic)

\* one peptide's group of the cleavable branch
CleavablePeptide(prefix, peptide_mass, crosslinker, precursor_charge, include_neutral_losses) ==
    LET charged == ChargedVersions(StubModified(prefix, peptide_mass, crosslinker),
                                   1, precursor_charge)
    IN  IF include_neutral_losses
        THEN AddNeutralLosses(charged, charged, DOMAIN charged)
        ELSE charged

\* fragments['diagnostic'][ion_name] = ion_mass
DiagnosticIons(crosslinker) ==
    [name \in {<<crosslinker.diagnostic_ions[i][1]>> :
                   i \in DOMAIN crosslinker.diagnostic_ions} |->
        Lookup(crosslinker.diagnostic_ions, name[1])]

\* a variant of ChargedPrecursors that stops below precursor_charge
RECURSIVE ChargedPrecursorsBelow(_, _, _, _)
ChargedPrecursorsBelow(d, intact_mass, charge, precursor_charge) ==
    IF charge >= precursor_charge THEN d
    ELSE ChargedPrecursorsBelow(Put(d, <<"intact", ChargePart(charge)>>,
                                    ChargedMz(intact_mass, charge)),
                                intact_mass, charge + 1, precursor_charge)

\* the charged precursors of the non-cleavable branch
RECURSIVE ChargedPrecursors(_, _, _, _)
ChargedPrecursors(d, intact_mass, charge, precursor_charge) ==
    IF charge > precursor_charge THEN d
    ELSE ChargedPrecursors(Put(d, <<"intact", ChargePart(charge)>>,
                               ChargedMz(intact_mass, charge)),
                           intact_mass, charge + 1, precursor_charge)

generate_crosslink_fragments(peptide1_mass, peptide2_mass, crosslinker, precursor_charge, include_neutral_losses) ==
    IF crosslinker.cleavable
    THEN [peptide1 |-> CleavablePeptide("α", peptide1_mass, crosslinker,
                           precursor_charge, include_neutral_losses),
          peptide2 |-> CleavablePeptide("β", peptide2_mass, crosslinker,
                           precursor_charge, include_neutral_losses),
          diagnostic |-> DiagnosticIons(crosslinker),
          precursor |-> EmptyDict]
    ELSE LET intact_mass ==
                 peptide1_mass + peptide2_mass + crosslinker.intact_mass
         IN  [peptide1 |-> EmptyDict,
              peptide2 |-> EmptyDict,
              diagnostic |-> EmptyDict,
              precursor |-> ChargedPrecursors(Put(EmptyDict, <<"intact">>, intact_mass),
                                intact_mass, 1, precursor_charge)]

-----------------------------------------------------------------------------
(* identify_crosslink_stubs *)

\* a variant of StubScan with the strict comparison error < tolerance_da
RECURSIVE StubScanStrict(_, _, _, _, _, _)
StubScanStrict(observed_masses, i, stub_name, expected, tolerance_da, matches) ==
    IF i > Len(observed_masses) THEN matches
    ELSE LET error == Abs(observed_masses[i] - expected)
         IN  StubScanStrict(observed_masses, i + 1, stub_name, expected, tolerance_da,
                            IF error < tolerance_da
                            THEN Append(matches, <<stub_name, observed_masses[i], error>>)
                            ELSE matches)

\* the inner loop `for obs_mass in observed_masses' for one stub
RECURSIVE StubScan(_, _, _, _, _, _)
StubScan(observed_masses, i, stub_name, expected, tolerance_da, matches) ==
    IF i > Len(observed_masses) THEN matches
    ELSE LET error == Abs(observed_masses[i] - expected)
         IN  StubScan(observed_masses, i + 1, stub_name, expected, tolerance_da,
                      IF error <= tolerance_da
                      THEN Append(matches, <<stub_name, observed_masses[i], error>>)
                      ELSE matches)

\* the outer loop `for stub_name, stub_mass in crosslinker.stub_masses.items()'
RECURSIVE StubLoop(_, _, _, _, _, _)
StubLoop(stub_masses, s, observed_masses, peptide_mass, tolerance_da, matches) ==
    IF s > Len(stub_masses) THEN matches
    ELSE StubLoop(stub_masses, s + 1, observed_masses, peptide_mass, tolerance_da,
                  StubScan(observed_masses, 1, stub_masses[s][1],
                           peptide_mass + stub_masses[s][2], tolerance_da, matches))

identify_crosslink_stubs(observed_masses, peptide_mass, crosslinker, tolerance_da) ==
    IF ~crosslinker.cleavable THEN <<>>
    ELSE StubLoop(crosslinker.stub_masses, 1, observed_masses, peptide_mass,
                  tolerance_da, <<>>)

-----------------------------------------------------------------------------
(* calculate_crosslink_fmr.  A float quotient n / d is the pair <<n, d>>,    *)
(* d > 0; a call that raises returns [raised |-> <the exception>].           *)

Ratio(n, d) == <<n, d>>

FMR_NOTE == "Full FMR calculation requires spectrum shifting - implement in annotator"

\* a variant of calculate_crosslink_fmr that guards both quotients with
\* total_peaks > 0
calculate_crosslink_fmr_one_guard(matched_peaks, total_peaks, matched_intensity, total_intensity, shift_range, pi_offset) ==
    IF total_peaks > 0 /\ total_intensity = 0
    THEN [raised |-> "ZeroDivisionError"]
    ELSE [fmr_peaks |-> IF total_peaks > 0
                        THEN Ratio(matched_peaks, total_peaks) ELSE Ratio(0, 1),
          fmr_intensity |-> IF total_peaks > 0
                            THEN Ratio(matched_intensity, total_intensity)
                            ELSE Ratio(0, 1),
          note |-> FMR_NOTE]

calculate_crosslink_fmr(matched_peaks, total_peaks, matched_intensity, total_intensity, shift_range, pi_offset) ==
    [fmr_peaks |-> IF total_peaks > 0
                   THEN Ratio(matched_peaks, total_peaks) ELSE Ratio(0, 1),
     fmr_intensity |-> IF total_intensity > 0
                       THEN Ratio(matched_intensity, total_intensity)
                       ELSE Ratio(0, 1),
     note |-> FMR_NOTE]

-----------------------------------------------------------------------------
(* parse_modifications of src/glycospectrum/spectrum_reader.py.  A string is *)
(* the sequence of its characters ("N-term" and "C-term" stand for their six *)
(* characters, none of them a digit); a mass is an integer in units of 1e-4; *)
(* the call returns [mods |-> <the list>] or [raised |-> <the exception>].   *)

\* int(c) of one character c that int() accepts
DecimalDigit ==
    ("0" :> 0) @@ ("1" :> 1) @@ ("2" :> 2) @@ ("3" :> 3) @@ ("4" :> 4) @@
    ("5" :> 5) @@ ("6" :> 6) @@ ("7" :> 7) @@ ("8" :> 8) @@ ("9" :> 9)

\* char.isdigit(): true of the decimal digits and of other digit characters
\* such as the superscript two
CharIsDigit(char) == char \in DOMAIN DecimalDigit \cup {"²"}

\* s[a:b] with 1-based bounds, b excluded
Slice(s, a, b) == IF a >= b THEN <<>> ELSE SubSeq(s, a, b - 1)

\* s.find(c) + 1: the first index of c in s, 0 when c is not in s
RECURSIVE FindFrom(_, _, _)
FindFrom(s, c, i) ==
    IF i > Len(s) THEN 0 ELSE IF s[i] = c THEN i ELSE FindFrom(s, c, i + 1)

Find(s, c) == FindFrom(s, c, 1)

\* s.strip()
RECURSIVE StripLeft(_)
StripLeft(s) == IF s # <<>> /\ Head(s) = " " THEN StripLeft(Tail(s)) ELSE s

RECURSIVE StripRight(_)
StripRight(s) ==
    IF s # <<>> /\ s[Len(s)] = " " THEN StripRight(SubSeq(s, 1, Len(s) - 1)) ELSE s

Strip(s) == StripRight(StripLeft(s))

\* s.split(',')
RECURSIVE Split(_)
Split(s) ==
    LET i == Find(s, ",")
    IN  IF i = 0 THEN <<s>>
        ELSE <<Slice(s, 1, i)>> \o Split(Slice(s, i + 1, Len(s) + 1))

\* the number of c in s
RECURSIVE CountOf(_, _)
CountOf(s, c) ==
    IF s = <<>> THEN 0 ELSE (IF Head(s) = c THEN 1 ELSE 0) + CountOf(Tail(s), c)

\* int(s) for a non-empty s of decimal digits
RECURSIVE IntOfDigits(_)
IntOfDigits(s) ==
    IF s = <<>> THEN 0
    ELSE IntOfDigits(SubSeq(s, 1, Len(s) - 1)) * 10 + DecimalDigit[s[Len(s)]]

RECURSIVE TenTo(_)
TenTo(n) == IF n = 0 THEN 1 ELSE 10 * TenTo(n - 1)

\* float(mass_str) succeeds: blanks around a run of digits with at most one
\* point and at least one digit
FloatOk(mass_str) ==
    LET t == Strip(mass_str)
    IN  /\ \A i \in DOMAIN t : t[i] \in DOMAIN DecimalDigit \cup {"."}
        /\ CountOf(t, ".") <= 1
        /\ \E i \in DOMAIN t : t[i] \in DOMAIN DecimalDigit

\* float(mass_str), in units of 1e-4 (up to four decimals)
FloatOf(mass_str) ==
    LET t == Strip(mass_str)
        dot == Find(t, ".")
        whole == IF dot = 0 THEN t ELSE Slice(t, 1, dot)
        decimals == IF dot = 0 THEN <<>> ELSE Slice(t, dot + 1, Len(t) + 1)
    IN  IntOfDigits(whole) * 10000 + IntOfDigits(decimals) * TenTo(4 - Len(decimals))

\* the loop `for char in position_part': pos and res
RECURSIVE PosOf(_)
PosOf(position_part) ==
    IF position_part = <<>> THEN <<>>
    ELSE (IF CharIsDigit(Head(position_part)) THEN <<Head(position_part)>> ELSE <<>>)
             \o PosOf(Tail(position_part))

RECURSIVE ResOf(_)
ResOf(position_part) ==
    IF position_part = <<>> THEN ""
    ELSE (IF CharIsDigit(Head(position_part)) THEN "" ELSE Head(position_part))
             \o ResOf(Tail(position_part))

\* the body of the loop for one token: [mods |-> mods, with the token's
\* modification appended if it has one], or [raised |-> "ValueError"] when
\* int(pos) fails
ParseOneMod(mods, token) ==
    LET mod == Strip(token)
        open == Find(mod, "(")
        close == Find(mod, ")")
        mass_str == Slice(mod, open + 1, close)
        position_part == Slice(mod, 1, open)
        pos == PosOf(position_part)
        res == ResOf(position_part)
    IN  IF mod = <<>> THEN [mods |-> mods]
        ELSE IF ~(open # 0 /\ close # 0) THEN [mods |-> mods]
        ELSE IF ~FloatOk(mass_str) THEN [mods |-> mods]
        ELSE IF position_part = <<"N-term">>
        THEN [mods |-> Append(mods, [position |-> 0, residue |-> "N-term",
                                     mass |-> FloatOf(mass_str)])]
        ELSE IF position_part = <<"C-term">>
        THEN [mods |-> Append(mods, [position |-> -1, residue |-> "C-term",
                                     mass |-> FloatOf(mass_str)])]
        ELSE IF pos # <<>> /\ res # ""
        THEN IF \A i \in DOMAIN pos : pos[i] \in DOMAIN DecimalDigit
             THEN [mods |-> Append(mods, [position |-> IntOfDigits(pos), residue |-> res,
                                          mass |-> FloatOf(mass_str)])]
             ELSE [raised |-> "ValueError"]
        ELSE [mods |-> mods]

\* the loop `for mod in assigned_mods.split(',')'
RECURSIVE ParseModsLoop(_, _, _)
ParseModsLoop(tokens, i, mods) ==
    IF i > Len(tokens) THEN [mods |-> mods]
    ELSE LET r == ParseOneMod(mods, tokens[i])
         IN  IF "raised" \in DOMAIN r THEN r ELSE ParseModsLoop(tokens, i + 1, r.mods)

\* assigned_mods is <<>> for a missing value (NaN) and <<s>> for a string s
parse_modifications(assigned_mods) ==
    IF assigned_mods = <<>> \/ assigned_mods[1] = <<>> THEN [mods |-> <<>>]
    ELSE ParseModsLoop(Split(assigned_mods[1]), 1, <<>>)

-----------------------------------------------------------------------------
(* The Fragment Calculator: the backbone ion series of a peptide.  Masses    *)
(* and m/z are integers in units of 1e-4.  A modification is a record        *)
(* [position, residue, mass] as parse_modifications makes them: position 0   *)
(* is the N-terminus, -1 the C-terminus, k the k-th residue.                 *)

\* monoisotopic residue masses
AA_MASSES ==
    ("P" :> 970528) @@ ("E" :> 1290426) @@ ("T" :> 1010477) @@
    ("I" :> 1130841) @@ ("D" :> 1150269)

\* the mass of a proton
PROTON_MASS == 10073

\* the mass of water added to a y ion
Y_ION_OFFSET == 180106

\* the residue masses of peptide[from..to], summed
RECURSIVE ResidueMass(_, _, _)
ResidueMass(peptide, from, to) ==
    IF from > to THEN 0
    ELSE AA_MASSES[peptide[from]] + ResidueMass(peptide, from + 1, to)

\* the mass deltas of the modifications whose position is in positions, summed
RECURSIVE ModificationMass(_, _)
ModificationMass(modifications, positions) ==
    IF modifications = <<>> THEN 0
    ELSE (IF Head(modifications).position \in positions THEN Head(modifications).mass ELSE 0)
             + ModificationMass(Tail(modifications), positions)

\* m/z = (neutralMass + z * protonMass) / z
IonMz(neutral_mass, z) == (neutral_mass + z * PROTON_MASS) \div z

\* a TheoreticalIon
TheoreticalIon(ion_type, ion_number, charge, mz) ==
    [ion_type |-> ion_type, ion_number |-> ion_number, charge |-> charge, mz |-> mz]

\* ion k of the b series at every charge of charges[j..]
RECURSIVE BIonAtCharges(_, _, _, _, _)
BIonAtCharges(peptide, modifications, k, charges, j) ==
    IF j > Len(charges) THEN <<>>
    ELSE <<TheoreticalIon("b", k, charges[j], IonMz(ResidueMass(peptide, 1, k) + ModificationMass(modifications, 0..k), charges[j]))>>
             \o BIonAtCharges(peptide, modifications, k, charges, j + 1)

\* ion k of the y series at every charge of charges[j..]
RECURSIVE YIonAtCharges(_, _, _, _, _)
YIonAtCharges(peptide, modifications, k, charges, j) ==
    IF j > Len(charges) THEN <<>>
    ELSE <<TheoreticalIon("y", k, charges[j], IonMz(ResidueMass(peptide, Len(peptide) - k + 1, Len(peptide)) + ModificationMass(modifications, {-1} \cup ((Len(peptide) - k + 1)..Len(peptide))) + Y_ION_OFFSET, charges[j]))>>
             \o YIonAtCharges(peptide, modifications, k, charges, j + 1)

\* ions k..n of the b series: one ion too many
RECURSIVE BIonsThroughN(_, _, _, _)
BIonsThroughN(peptide, modifications, charges, k) ==
    IF k > Len(peptide) THEN <<>>
    ELSE BIonAtCharges(peptide, modifications, k, charges, 1)
             \o BIonsThroughN(peptide, modifications, charges, k + 1)

\* ions k..n-1 of the b series, counted from the N-terminus
RECURSIVE BIonsFrom(_, _, _, _)
BIonsFrom(peptide, modifications, charges, k) ==
    IF k > Len(peptide) - 1 THEN <<>>
    ELSE BIonAtCharges(peptide, modifications, k, charges, 1)
             \o BIonsFrom(peptide, modifications, charges, k + 1)

\* ions k..n-1 of the y series, counted from the C-terminus
RECURSIVE YIonsFrom(_, _, _, _)
YIonsFrom(peptide, modifications, charges, k) ==
    IF k > Len(peptide) - 1 THEN <<>>
    ELSE YIonAtCharges(peptide, modifications, k, charges, 1)
             \o YIonsFrom(peptide, modifications, charges, k + 1)

\* the b series with ion n, the whole peptide, among its ions
calculate_b_ions_through_n(peptide, modifications, charges) ==
    BIonsThroughN(peptide, modifications, charges, 1)

\* FragmentCalculator(peptide, modifications, charge).calculate_b_ions(charges)
calculate_b_ions(peptide, modifications, charges) ==
    BIonsFrom(peptide, modifications, charges, 1)

\* FragmentCalculator(peptide, modifications, charge).calculate_y_ions(charges)
calculate_y_ions(peptide, modifications, charges) ==
    YIonsFrom(peptide, modifications, charges, 1)

-----------------------------------------------------------------------------
(* OXONIUM IONS and the "Annotate Spectrum" handler of src/app.py.  m/z      *)
(* values are integers in units of 1e-4, intensities in tenths; a cell of    *)
(* the data editor is <<>> when it is empty (None, NaN) and <<x>> otherwise. *)

OXONIUM_IONS_EXTENDED ==
    <<
       <<"HexNAc", 2040867>>, <<"HexNAc-H2O", 1860761>>, <<"HexNAc-2H2O", 1680655>>,
       <<"HexNAc-CH2O", 1740761>>, <<"HexNAc-C2H4O2", 1440655>>, <<"HexNAc-C2H6O3", 1260550>>,
       <<"HexNAc_138", 1380550>>, <<"Hex", 1630601>>, <<"Hex-H2O", 1450495>>,
       <<"Hex-2H2O", 1270390>>, <<"NeuAc", 2921027>>, <<"NeuAc-H2O", 2740921>>,
       <<"NeuAc-2H2O", 2560816>>, <<"NeuAc-CO2", 2481129>>, <<"NeuAc-CH4O2", 2600765>>,
       <<"Fuc", 1470652>>, <<"Fuc-H2O", 1290546>>, <<"HexNAc-Hex", 3661395>>,
       <<"HexNAc-Hex-H2O", 3481289>>, <<"HexNAc-HexNAc", 4071660>>, <<"Hex-Hex", 3251129>>,
       <<"HexNAc-NeuAc", 4951821>>, <<"Hex-NeuAc", 4541556>>, <<"HexNAc-Hex-NeuAc", 6572349>>,
       <<"HexNAc-Hex-Hex", 5281923>>, <<"HexNAc-TMT", 5292937>>, <<"HexNAc-H2O-TMT", 5112831>>
    >>

\* pd.notna(cell)
NotNa(cell) == cell # <<>>

\* a variant of ParsePeaks that keeps rows with a zero value
RECURSIVE ParsePeaksNonNegative(_, _, _)
ParsePeaksNonNegative(rows, i, peaks) ==
    IF i > Len(rows) THEN peaks
    ELSE LET mz == rows[i][1]
             intensity == rows[i][2]
         IN  ParsePeaksNonNegative(rows, i + 1,
                 IF NotNa(mz) /\ NotNa(intensity) /\ mz[1] >= 0 /\ intensity[1] >= 0
                 THEN Append(peaks, <<mz[1], intensity[1]>>)
                 ELSE peaks)

\* the loop `for _, row in edited_df.iterrows()' that fills peaks
RECURSIVE ParsePeaks(_, _, _)
ParsePeaks(rows, i, peaks) ==
    IF i > Len(rows) THEN peaks
    ELSE LET mz == rows[i][1]
             intensity == rows[i][2]
         IN  ParsePeaks(rows, i + 1,
                 IF NotNa(mz) /\ NotNa(intensity) /\ mz[1] > 0 /\ intensity[1] > 0
                 THEN Append(peaks, <<mz[1], intensity[1]>>)
                 ELSE peaks)

\* max(intensities)
MaxOf(values) ==
    CHOOSE m \in {values[i] : i \in DOMAIN values} :
        \A i \in DOMAIN values : values[i] <= m

\* q * 10^steps + the whole part of r * 10^steps / d, one decimal at a time
RECURSIVE ScaledDivLoop(_, _, _, _)
ScaledDivLoop(q, r, d, steps) ==
    IF steps = 0 THEN q
    ELSE ScaledDivLoop(q * 10 + (r * 10) \div d, (r * 10) % d, d, steps - 1)

\* error_ppm = (mz - ion_mz) / ion_mz * 1e6, rounded down to a whole ppm
ErrorPpm(mz, ion_mz) ==
    ScaledDivLoop((mz - ion_mz) \div ion_mz, (mz - ion_mz) % ion_mz, ion_mz, 6)

\* abs(error_ppm) < tolerance, decided on the exact quotient:
\* |mz - ion_mz| * 1e6 < tolerance * ion_mz
PpmMatch(mz, ion_mz, tolerance) ==
    /\ tolerance * ion_mz >= 1
    /\ Abs(mz - ion_mz) <= (tolerance * ion_mz - 1) \div 1000000

\* abs(mz - ion_mz) < tolerance
DaMatch(mz, ion_mz, tolerance) == Abs(mz - ion_mz) < tolerance

\* match, for one ion and one peak
PeakMatch(mz, ion_mz, tolerance_unit, tolerance) ==
    IF tolerance_unit = "ppm"
    THEN PpmMatch(mz, ion_mz, tolerance)
    ELSE DaMatch(mz, ion_mz, tolerance)

\* the inner loop over the peaks up to its break: the index of the first
\* peak that matches ion_mz, 0 when the loop ends without a match
RECURSIVE FirstMatch(_, _, _, _, _)
FirstMatch(mz_values, i, ion_mz, tolerance_unit, tolerance) ==
    IF i > Len(mz_values) THEN 0
    ELSE IF PeakMatch(mz_values[i], ion_mz, tolerance_unit, tolerance) THEN i
    ELSE FirstMatch(mz_values, i + 1, ion_mz, tolerance_unit, tolerance)

NoMatches == [matched_ions |-> <<>>, matched_errors |-> <<>>, matched_mz |-> <<>>]

\* a variant of MatchIons in which a matched peak is taken out of the list
\* the later ions are compared with
RECURSIVE MatchIonsConsuming(_, _, _, _, _, _)
MatchIonsConsuming(ions, k, mz_values, tolerance_unit, tolerance, matched) ==
    IF k > Len(ions) THEN matched
    ELSE LET ion_name == ions[k][1]
             ion_mz == ions[k][2]
             i == FirstMatch(mz_values, 1, ion_mz, tolerance_unit, tolerance)
         IN  IF i = 0
             THEN MatchIonsConsuming(ions, k + 1, mz_values, tolerance_unit,
                                     tolerance, matched)
             ELSE MatchIonsConsuming(ions, k + 1,
                      SubSeq(mz_values, 1, i - 1)
                          \o SubSeq(mz_values, i + 1, Len(mz_values)),
                      tolerance_unit, tolerance,
                      [matched_ions |-> Append(matched.matched_ions, ion_name),
                       matched_errors |-> Append(matched.matched_errors,
                                                 ErrorPpm(mz_values[i], ion_mz)),
                       matched_mz |-> Append(matched.matched_mz, mz_values[i])])

\* the loop `for ion_name, ion_mz in OXONIUM_IONS_EXTENDED.items()'
RECURSIVE MatchIons(_, _, _, _, _, _)
MatchIons(ions, k, mz_values, tolerance_unit, tolerance, matched) ==
    IF k > Len(ions) THEN matched
    ELSE LET ion_name == ions[k][1]
             ion_mz == ions[k][2]
             i == FirstMatch(mz_values, 1, ion_mz, tolerance_unit, tolerance)
         IN  MatchIons(ions, k + 1, mz_values, tolerance_unit, tolerance,
                 IF i = 0 THEN matched
                 ELSE [matched_ions |-> Append(matched.matched_ions, ion_name),
                       matched_errors |-> Append(matched.matched_errors,
                                                 ErrorPpm(mz_values[i], ion_mz)),
                       matched_mz |-> Append(matched.matched_mz, mz_values[i])])

\* the handler of the "Annotate Spectrum" button: what it displays
AnnotateSpectrum(rows, analysis_type, tolerance_unit, tolerance) ==
    LET peaks == ParsePeaks(rows, 1, <<>>)
    IN  IF peaks # <<>>
        THEN LET mz_values == [i \in DOMAIN peaks |-> peaks[i][1]]
                 intensities == [i \in DOMAIN peaks |-> peaks[i][2]]
                 max_intensity == MaxOf(intensities)
                 matched == IF analysis_type = "Glycopeptide"
                            THEN MatchIons(OXONIUM_IONS_EXTENDED, 1, mz_values,
                                           tolerance_unit, tolerance, NoMatches)
                            ELSE NoMatches
             IN  [peaks |-> peaks,
                  \* i / max_intensity * 100, in tenths of a percent
                  rel_intensities |-> [i \in DOMAIN peaks |->
                                          (intensities[i] * 1000) \div max_intensity],
                  matched_ions |-> matched.matched_ions,
                  matched_errors |-> matched.matched_errors,
                  matched_mz |-> matched.matched_mz,
                  \* len(matched_ions) / len(peaks) * 100, in tenths of a percent
                  coverage |-> (Len(matched.matched_ions) * 1000) \div Len(peaks)]
        ELSE [error |-> "No valid peaks found in input"]

-----------------------------------------------------------------------------
(* The calls.  The library is a set of synchronous functions over the        *)
(* module-level tables, which no function assigns to: a behaviour is a       *)
(* sequence of calls, each returning before the next one starts, its result  *)
(* discarded by the caller.                                                  *)

MaxAtoms == 4

MaxDigits == 2

MaxCharge == 5

MaxObs == 2

Atoms == {"Hex", "HexNAc", "Man", "Xx"} \cup {"0", "2", "5"} \cup OtherAtoms

\* composition strings: up to MaxAtoms atoms, counts of up to MaxDigits digits
CompStrings ==
    {s \in UNION {[1..n -> Atoms] : n \in 0..MaxAtoms} :
        \A i \in DOMAIN s : DigitRunEnd(s, i) - i <= MaxDigits}
    \cup {<<"Hex", "2", "Hex", "3">>, <<"HexNAc", "1", "Hex", "3", "HexNAc", "4">>}

Names == {"", "Man5"}

GlycanTypes == {"O-GlcNAc", "O-GalNAc", "O-glycan", "N-glycan", "unknown"}

\* glycans handed to generate_y_ion_series: the library entries and parsed ones
YCompStrings ==
    {<<"HexNAc", "2", "Hex", "5">>, <<"HexNAc", "0", "Hex", "2">>, <<"Hex", "2">>,
     <<"HexNAc", "2">>, <<>>,
     <<"HexNAc", "1">>, <<"HexNAc", "1", "Hex", "1">>, <<"Hex", "3", "HexNAc", "2">>,
     <<"HexNAc", "2", "Hex", "3", "Fuc", "1">>,
     <<"HexNAc", "4", "Hex", "5", "Fuc", "1", "NeuAc", "2">>,
     <<"HexNAc", "2", "Hex", "3", "NeuGc", "1">>}

YGlycans ==
    {O_GLYCAN_COMPOSITIONS[i][2] : i \in DOMAIN O_GLYCAN_COMPOSITIONS}
    \cup {N_GLYCAN_COMPOSITIONS[i][2] : i \in DOMAIN N_GLYCAN_COMPOSITIONS}
    \cup {from_string(s, "", t) : s \in YCompStrings, t \in GlycanTypes}

\* peptide masses, in 1e-4 Da: 1000.0 and 1500.0
PeptideMasses == {10000000, 15000000}

\* query masses, in 1e-4 Da: 203.08, 203.1794 (HexNAc + 0.1), 1216.42, 445.09
\* (between the phosphate and the sulfate entry), 1622.5814, 656.2276, 50.0
QueryMasses == {2030800, 2031794, 12164200, 4450900, 16225814, 6562276, 500000}

\* tolerances, in 1e-4 Da: 0, 0.01, 0.1
Tolerances == {0, 100, 1000}

LibraryChoices == {"O-glycan", "N-glycan", "all", "O-GlcNAc"}

\* crosslink inputs, in units of 4 micro-dalton
Peptide1Masses == {Fine(10000000), Fine(5005000)}

Peptide2Masses == {Fine(12000000), Fine(7002500)}

\* observed masses: 1054.01, 1085.98, 500.0 (the test's), 1054.0306 (alkene
\* stub + 0.02) and 1226.0144 (the ETHMP stub of DSBSO)
ObservedValues ==
    {Fine(10540100), Fine(10859800), Fine(5000000), Fine(10540306), Fine(12260144)}

ObservedLists == UNION {[1..n -> ObservedValues] : n \in 0..MaxObs}

\* 0, 0.02, 0.05
StubTolerances == {0, Fine(200), Fine(500)}

CrosslinkerValues == {CROSSLINKERS[i][2] : i \in DOMAIN CROSSLINKERS}

MaxRows == 2

\* rows of the data editor (m/z in 1e-4, intensity in tenths): an empty row, a
\* row without intensity, a zero m/z, a zero intensity, and valid peaks at
\* 204.0867 (the HexNAc ion), 204.0877, 204.0967, 204.5867 (HexNAc + 0.5),
\* 144.5495 (Hex-H2O - 0.5), 144.5575 (between HexNAc-C2H4O2 and Hex-H2O)
\* and 500.25 (no ion near)
EditorRows ==
    {<< <<>>, <<>> >>, << <<2040867>>, <<>> >>, << <<0>>, <<10000>> >>,
     << <<2040867>>, <<0>> >>, << <<2040867>>, <<10000>> >>,
     << <<2040877>>, <<9000>> >>, << <<2040967>>, <<8000>> >>,
     << <<2045867>>, <<5000>> >>, << <<1445495>>, <<3000>> >>,
     << <<1445575>>, <<2000>> >>, << <<5002500>>, <<5000>> >>}

RowLists == UNION {[1..n -> EditorRows] : n \in 0..MaxRows}

AnalysisTypes == {"Glycopeptide", "Crosslinked Peptide", "Linear Peptide"}

\* the tolerance sliders: 20 ppm, 0.02 Da, 0.5 Da
ToleranceSettings == {<<"ppm", 20>>, <<"Da", 200>>, <<"Da", 5000>>}

MaxPeaks == 2

\* peak counts handed to calculate_crosslink_fmr
PeakCounts == 0..MaxPeaks

\* intensity sums, in hundreds: 0, 500.0, 1000.0
IntensitySums == {0, 5, 10}

\* shift_range: the default and a narrow window
ShiftRanges == {50, 2}

\* pi_offset, in 1e-5: the default
PiOffsets == {314159}

\* what the caller's spectrum gives when it is shifted, summed over the
\* shift_range shifted positions: no match at any position, or (when it has
\* a peak of intensity 500.0) one match of intensity 500.0 at each
ShiftedSpectra(shift_range, total_peaks, total_intensity) ==
    {[matched_peaks |-> 0, matched_intensity |-> 0]}
    \cup (IF total_peaks >= 1 /\ total_intensity >= 5
          THEN {[matched_peaks |-> shift_range, matched_intensity |-> 5 * shift_range]}
          ELSE {})

\* the most modifications written in one Assigned Modifications cell
MaxMods == 2

\* the texts between the commas of an Assigned Modifications cell
ModTokens ==
    { <<"N-term", "(", "2", "2", "9", ".", "1", "6", "2", "9", ")">>,
      <<"C-term", "(", "1", ")">>,
      <<"4", "S", "(", "5", "2", "8", ".", "2", "8", "5", "9", ")">>,
      <<"1", "7", "K", "(", "2", "2", "9", ".", "1", "6", "2", "9", ")">>,
      <<" ", "4", "S", "(", "1", ")", " ">>,
      <<"4", "S", "(", " ", "1", " ", ")">>,
      <<"4", "S", "(", ".", "5", ")">>,
      <<"4", "S", "(", "1", ".", ")">>,
      <<"4", "S">>,
      <<"4", "S", "(", "1">>,
      <<"4", "S", ")", "1", "(">>,
      <<"4", "S", "(", "x", ")">>,
      <<"4", "S", "(", ")">>,
      <<"4", "S", "(", ".", ")">>,
      <<"4", "S", "(", "1", ".", "2", ".", "3", ")">>,
      <<"4", "(", "1", ")">>,
      <<"S", "(", "1", ")">>,
      <<"(", "1", ")">>,
      <<"N-term", " ", "(", "1", ")">>,
      <<"²", "S", "(", "1", ")">>,
      <<>>,
      <<" ">> }

\* ','.join(tokens)
RECURSIVE JoinComma(_)
JoinComma(tokens) ==
    IF tokens = <<>> THEN <<>>
    ELSE IF Len(tokens) = 1 THEN tokens[1]
    ELSE tokens[1] \o <<",">> \o JoinComma(Tail(tokens))

\* the Assigned Modifications cells: a missing value, or a string
AssignedMods ==
    {<<>>} \cup { <<JoinComma(tokens)>> : tokens \in UNION { [1..n -> ModTokens] : n \in 0..MaxMods } }

\* the longest peptide drawn residue by residue
MaxResidues == 3

\* the peptides given to the Fragment Calculator: the peptide of the tests and
\* every peptide of up to MaxResidues residues
Peptides ==
    {<<"P", "E", "P", "T", "I", "D", "E">>}
        \cup UNION { [1..n -> {"P", "E", "T"}] : n \in 1..MaxResidues }

\* the modification lists given to the Fragment Calculator
ModificationLists ==
    { <<>>,
      <<[position |-> 0, residue |-> "N-term", mass |-> 2291629]>>,
      <<[position |-> 2, residue |-> "E", mass |-> 10000],
        [position |-> -1, residue |-> "C-term", mass |-> 20000]>> }

\* the charges asked for
ChargeLists == {<<1>>, <<1, 2>>, <<2>>}

\* the most HexNAc, Hex and NeuAc in a composition given to
\* generate_n_glycan_y_ions
MaxHexNAc == 4

MaxHex == 5

MaxNeuAc == 2

\* the dict with the counts that are not zero
CountsDict(n_hexnac, n_hex, n_fuc, n_neuac, n_neugc) ==
    LET counts == ("HexNAc" :> n_hexnac) @@ ("Hex" :> n_hex) @@ ("Fuc" :> n_fuc)
                      @@ ("NeuAc" :> n_neuac) @@ ("NeuGc" :> n_neugc)
    IN  [mono \in {m \in DOMAIN counts : counts[m] > 0} |-> counts[mono]]

\* the compositions given to generate_n_glycan_y_ions
NGlycanCompositions ==
    { CountsDict(n_hexnac, n_hex, n_fuc, n_neuac, n_neugc) :
          n_hexnac \in 0..MaxHexNAc, n_hex \in 0..MaxHex, n_fuc \in 0..1,
          n_neuac \in 0..MaxNeuAc, n_neugc \in 0..1 }

\* the module-level tables as the module defines them
InitialShared ==
    [MONOSACCHARIDE_MASSES |-> MONOSACCHARIDE_MASSES,
     O_GLYCAN_COMPOSITIONS |-> O_GLYCAN_COMPOSITIONS,
     N_GLYCAN_COMPOSITIONS |-> N_GLYCAN_COMPOSITIONS,
     CROSSLINKERS |-> CROSSLINKERS]

\* a variant of SideEffects in which generate_y_ion_series adds the TMT mass
\* to glycan.mass itself; a glycan of a library is the library's own object
SideEffectsTmtOnGlycanObject(name, a, tables) ==
    IF name = "generate_y_ion_series" /\ a.tmt_on_glycan
    THEN LET tagged == [a.glycan EXCEPT !.mass = @ + a.tmt_mass]
             Written(lib) == [i \in DOMAIN lib |->
                                 IF lib[i][2] = a.glycan THEN <<lib[i][1], tagged>> ELSE lib[i]]
         IN  [shared |-> [tables EXCEPT !.O_GLYCAN_COMPOSITIONS = Written(@),
                                        !.N_GLYCAN_COMPOSITIONS = Written(@)],
              passed |-> [a EXCEPT !.glycan = tagged]]
    ELSE [shared |-> tables, passed |-> a]

\* what the call `name' with arguments `a' leaves of the module-level tables
\* and of its arguments: the functions assign to their local names only
\* (glycan_mass, comp, y_ions, fragments, matches, composition), never through
\* an argument or a module-level table
SideEffects(name, a, tables) == [shared |-> tables, passed |-> a]

Init ==
    /\ pc = "idle"
    /\ op = "none"
    /\ args = <<>>
    /\ result = <<>>
    /\ shared = InitialShared
    /\ passed = <<>>

Call(name, a, r) ==
    /\ pc' = "done"
    /\ op' = name
    /\ args' = a
    /\ result' = r
    /\ shared' = SideEffects(name, a, shared).shared
    /\ passed' = SideEffects(name, a, shared).passed

FromString ==
    /\ pc = "idle"
    /\ \E comp_string \in CompStrings, name \in Names :
           Call("from_string",
                [comp_string |-> comp_string, name |-> name, glycan_type |-> "unknown"],
                from_string(comp_string, name, "unknown"))

GetGlycanMass ==
    /\ pc = "idle"
    /\ \E composition_string \in CompStrings :
           Call("get_glycan_mass", [composition_string |-> composition_string],
                get_glycan_mass(composition_string))

GenerateYIonSeries ==
    /\ pc = "idle"
    /\ \E glycan \in YGlycans, peptide_mass \in PeptideMasses,
          include_water_loss \in BOOLEAN, tmt_on_glycan \in BOOLEAN :
           Call("generate_y_ion_series",
                [glycan |-> glycan, peptide_mass |-> peptide_mass,
                 include_water_loss |-> include_water_loss,
                 tmt_on_glycan |-> tmt_on_glycan, tmt_mass |-> TMT_MASS_DEFAULT],
                generate_y_ion_series(glycan, peptide_mass, include_water_loss,
                                      tmt_on_glycan, TMT_MASS_DEFAULT))

IdentifyGlycanFromMass ==
    /\ pc = "idle"
    /\ \E mass \in QueryMasses, tolerance_da \in Tolerances,
          glycan_type \in LibraryChoices :
           Call("identify_glycan_from_mass",
                [mass |-> mass, tolerance_da |-> tolerance_da,
                 glycan_type |-> glycan_type],
                identify_glycan_from_mass(mass, tolerance_da, glycan_type))

GenerateCrosslinkFragments ==
    /\ pc = "idle"
    /\ \E peptide1_mass \in Peptide1Masses, peptide2_mass \in Peptide2Masses,
          crosslinker \in CrosslinkerValues, precursor_charge \in 0..MaxCharge,
          include_neutral_losses \in BOOLEAN :
           Call("generate_crosslink_fragments",
                [peptide1_mass |-> peptide1_mass, peptide2_mass |-> peptide2_mass,
                 crosslinker |-> crosslinker, precursor_charge |-> precursor_charge,
                 include_neutral_losses |-> include_neutral_losses],
                generate_crosslink_fragments(peptide1_mass, peptide2_mass, crosslinker,
                                             precursor_charge, include_neutral_losses))

IdentifyCrosslinkStubs ==
    /\ pc = "idle"
    /\ \E observed_masses \in ObservedLists, peptide_mass \in Peptide1Masses,
          crosslinker \in CrosslinkerValues, tolerance_da \in StubTolerances :
           Call("identify_crosslink_stubs",
                [observed_masses |-> observed_masses, peptide_mass |-> peptide_mass,
                 crosslinker |-> crosslinker, tolerance_da |-> tolerance_da],
                identify_crosslink_stubs(observed_masses, peptide_mass, crosslinker,
                                         tolerance_da))

\* O_GLYCAN_COMPOSITIONS[key] and N_GLYCAN_COMPOSITIONS[key], as callers read
\* the reference libraries
GlycanLookup ==
    /\ pc = "idle"
    /\ \/ \E key \in Keys(O_GLYCAN_COMPOSITIONS) :
              Call("O_GLYCAN_COMPOSITIONS[]", [key |-> key],
                   Lookup(O_GLYCAN_COMPOSITIONS, key))
       \/ \E key \in Keys(N_GLYCAN_COMPOSITIONS) :
              Call("N_GLYCAN_COMPOSITIONS[]", [key |-> key],
                   Lookup(N_GLYCAN_COMPOSITIONS, key))

\* CROSSLINKERS[key]
CrosslinkerLookup ==
    /\ pc = "idle"
    /\ \E key \in Keys(CROSSLINKERS) :
           Call("CROSSLINKERS[]", [key |-> key], Lookup(CROSSLINKERS, key))

\* the caller drops the result; nothing of a call outlives it
AnnotateSpectrumButton ==
    /\ pc = "idle"
    /\ \E rows \in RowLists, analysis_type \in AnalysisTypes, t \in ToleranceSettings :
           Call("Annotate Spectrum",
                [rows |-> rows, analysis_type |-> analysis_type,
                 tolerance_unit |-> t[1], tolerance |-> t[2]],
                AnnotateSpectrum(rows, analysis_type, t[1], t[2]))

\* args.shifted is not a parameter: it is the spectrum the counts were taken
\* from, which the function is not given
CalculateCrosslinkFmr ==
    /\ pc = "idle"
    /\ \E matched_peaks \in PeakCounts, total_peaks \in PeakCounts,
          matched_intensity \in IntensitySums, total_intensity \in IntensitySums,
          shift_range \in ShiftRanges, pi_offset \in PiOffsets :
         \E shifted \in ShiftedSpectra(shift_range, total_peaks, total_intensity) :
           Call("calculate_crosslink_fmr",
                [matched_peaks |-> matched_peaks, total_peaks |-> total_peaks,
                 matched_intensity |-> matched_intensity,
                 total_intensity |-> total_intensity,
                 shift_range |-> shift_range, pi_offset |-> pi_offset,
                 shifted |-> shifted],
                calculate_crosslink_fmr(matched_peaks, total_peaks, matched_intensity,
                                        total_intensity, shift_range, pi_offset))

\* parse_modifications(assigned_mods)
ParseModifications ==
    /\ pc = "idle"
    /\ \E assigned_mods \in AssignedMods :
          Call("parse_modifications", [assigned_mods |-> assigned_mods],
               parse_modifications(assigned_mods))

\* FragmentCalculator(peptide, modifications, charge).calculate_b_ions(charges)
CalculateBIons ==
    /\ pc = "idle"
    /\ \E peptide \in Peptides, modifications \in ModificationLists, charges \in ChargeLists :
          Call("calculate_b_ions",
               [peptide |-> peptide, modifications |-> modifications, charges |-> charges],
               calculate_b_ions(peptide, modifications, charges))

\* FragmentCalculator(peptide, modifications, charge).calculate_y_ions(charges)
CalculateYIons ==
    /\ pc = "idle"
    /\ \E peptide \in Peptides, modifications \in ModificationLists, charges \in ChargeLists :
          Call("calculate_y_ions",
               [peptide |-> peptide, modifications |-> modifications, charges |-> charges],
               calculate_y_ions(peptide, modifications, charges))

\* generate_n_glycan_y_ions(glycan_composition, peptide_mass, include_fucose_variants)
GenerateNGlycanYIons ==
    /\ pc = "idle"
    /\ \E glycan_composition \in NGlycanCompositions, peptide_mass \in PeptideMasses, include_fucose_variants \in BOOLEAN :
          Call("generate_n_glycan_y_ions",
               [glycan_composition |-> glycan_composition, peptide_mass |-> peptide_mass,
                include_fucose_variants |-> include_fucose_variants],
               generate_n_glycan_y_ions(glycan_composition, peptide_mass,
                                        include_fucose_variants))

Return ==
    /\ pc = "done"
    /\ pc' = "idle"
    /\ op' = "none"
    /\ args' = <<>>
    /\ result' = <<>>
    /\ passed' = <<>>
    /\ UNCHANGED shared

Next ==
    \/ FromString
    \/ GetGlycanMass
    \/ GenerateYIonSeries
    \/ IdentifyGlycanFromMass
    \/ GenerateCrosslinkFragments
    \/ IdentifyCrosslinkStubs
    \/ GlycanLookup
    \/ CrosslinkerLookup
    \/ AnnotateSpectrumButton
    \/ CalculateCrosslinkFmr
    \/ ParseModifications
    \/ CalculateBIons
    \/ CalculateYIons
    \/ GenerateNGlycanYIons
    \/ Return

Spec == Init /\ [][Next]_vars

Returned(name) == pc = "done" /\ op = name

-----------------------------------------------------------------------------
(* Composition strings as the grammar describes them, for the properties:    *)
(* a <symbol><count> group is a maximal run of letters directly followed by  *)
(* a maximal run of digits.                                                  *)

GroupsOf(s) ==
    {g \in (1..Len(s)) \X (1..(Len(s) + 1)) \X (1..(Len(s) + 1)) :
        /\ g[1] < g[2] /\ g[2] < g[3]
        /\ \A x \in g[1]..(g[2] - 1) : IsAlpha(s[x])
        /\ \A x \in g[2]..(g[3] - 1) : IsDigit(s[x])
        /\ (g[1] = 1 \/ ~IsAlpha(s[g[1] - 1]))
        /\ (g[3] = Len(s) + 1 \/ ~IsDigit(s[g[3]]))}

GroupSymbol(s, g) == Text(s, g[1], g[2])

RECURSIVE Pow10(_)
Pow10(n) == IF n = 0 THEN 1 ELSE 10 * Pow10(n - 1)

\* the decimal value of the digits s[j..k-1], by place value
RECURSIVE PlaceValue(_, _, _)
PlaceValue(s, j, k) ==
    IF j >= k THEN 0
    ELSE DigitVal[s[j]] * Pow10(k - 1 - j) + PlaceValue(s, j + 1, k)

GroupCount(s, g) == PlaceValue(s, g[2], g[3])

KnownGroups(s) ==
    {g \in GroupsOf(s) : GroupSymbol(s, g) \in DOMAIN MONOSACCHARIDE_MASSES}

\* the string is a concatenation of groups, each of a known symbol
BuiltFromKnown(s) ==
    /\ \A x \in DOMAIN s : \E g \in GroupsOf(s) : g[1] <= x /\ x < g[3]
    /\ KnownGroups(s) = GroupsOf(s)

NoRepeatedSymbol(s) ==
    \A g, h \in GroupsOf(s) : GroupSymbol(s, g) = GroupSymbol(s, h) => g = h

\* the sum over groups gs of count x MONOSACCHARIDE_MASSES[symbol]
RECURSIVE SumGroups(_, _)
SumGroups(s, gs) ==
    IF gs = {} THEN 0
    ELSE LET g == CHOOSE x \in gs : TRUE
         IN  GroupCount(s, g) * MONOSACCHARIDE_MASSES[GroupSymbol(s, g)]
               + SumGroups(s, gs \ {g})

\* the sum over a composition of count x MONOSACCHARIDE_MASSES[symbol]
RECURSIVE SumComposition(_, _)
SumComposition(comp, monos) ==
    IF monos = {} THEN 0
    ELSE LET m == CHOOSE x \in monos : TRUE
         IN  comp[m] * MONOSACCHARIDE_MASSES[m] + SumComposition(comp, monos \ {m})

MassOf(comp) == SumComposition(comp, DOMAIN comp)

HexNAc2Hex5 == <<"HexNAc", "2", "Hex", "5">>

-----------------------------------------------------------------------------
(* C1 *)

\* C1, as stated: for every composition string built only from known
\* monosaccharide symbols, from_string and get_glycan_mass return a mass equal
\* to the sum over the <symbol><count> groups of count x mass of the symbol.
C1_MassIsSumOverGroups ==
    /\ (Returned("from_string") /\ BuiltFromKnown(args.comp_string))
          => result.mass = SumGroups(args.comp_string, GroupsOf(args.comp_string))
    /\ (Returned("get_glycan_mass") /\ BuiltFromKnown(args.composition_string))
          => result = SumGroups(args.composition_string,
                                GroupsOf(args.composition_string))

\* C1, amended: for every composition string built only from known symbols in
\* which no symbol occurs in more than one group, the mass returned is the sum
\* over the groups of count x mass of the symbol; "HexNAc2Hex5" gives the
\* composition {HexNAc: 2, Hex: 5} and the mass 2 x 203.0794 + 5 x 162.0528.
C1_MassIsSumOverDistinctGroups ==
    /\ (Returned("from_string") /\ BuiltFromKnown(args.comp_string)
            /\ NoRepeatedSymbol(args.comp_string))
          => result.mass = SumGroups(args.comp_string, GroupsOf(args.comp_string))
    /\ (Returned("get_glycan_mass") /\ BuiltFromKnown(args.composition_string)
            /\ NoRepeatedSymbol(args.composition_string))
          => result = SumGroups(args.composition_string,
                                GroupsOf(args.composition_string))
    /\ (Returned("from_string") /\ args.comp_string = HexNAc2Hex5)
          => /\ result.composition = ("HexNAc" :> 2) @@ ("Hex" :> 5)
             /\ result.mass = 2 * 2030794 + 5 * 1620528

C1_Witness ==
    /\ Returned("from_string")
    /\ args.comp_string = HexNAc2Hex5
    /\ result.composition = ("HexNAc" :> 2) @@ ("Hex" :> 5)
    /\ result.mass = 12164228

-----------------------------------------------------------------------------
(* C2 *)

\* C2: from_string drops every group whose symbol is unknown: the composition
\* holds exactly the recognized symbols of the string, each with the count of
\* one of its groups, the mass is the sum over the composition, and a string
\* with no recognized symbol gives the empty composition and mass 0.
C2_UnknownSymbolsDropped ==
    Returned("from_string") =>
        LET s == args.comp_string
            comp == result.composition
        IN  /\ DOMAIN comp \subseteq DOMAIN MONOSACCHARIDE_MASSES
            /\ DOMAIN comp = {GroupSymbol(s, g) : g \in KnownGroups(s)}
            /\ \A m \in DOMAIN comp :
                   \E g \in KnownGroups(s) :
                       GroupSymbol(s, g) = m /\ GroupCount(s, g) = comp[m]
            /\ result.mass = MassOf(comp)
            /\ KnownGroups(s) = {} => (comp = EmptyDict /\ result.mass = 0)

C2_Witness ==
    /\ Returned("from_string")
    /\ args.comp_string = <<"Xx", "2", "Hex", "5">>
    /\ result.composition = ("Hex" :> 5)
    /\ result.mass = 5 * 1620528

-----------------------------------------------------------------------------
(* C3 *)

\* C3: every GlycanComposition of O_GLYCAN_COMPOSITIONS and
\* N_GLYCAN_COMPOSITIONS has a mass that is exactly the sum of count x
\* MONOSACCHARIDE_MASSES[symbol] over its composition.
C3_LibraryMassIsSum ==
    (Returned("O_GLYCAN_COMPOSITIONS[]") \/ Returned("N_GLYCAN_COMPOSITIONS[]"))
        => result.mass = MassOf(result.composition)

C3_Witness ==
    /\ Returned("O_GLYCAN_COMPOSITIONS[]")
    /\ args.key = "Sialyl-Tn"
    /\ result.mass = MassOf(result.composition)

-----------------------------------------------------------------------------
(* C4 *)

\* C4, as stated: for every glycan type and peptide mass, the mapping returned
\* by generate_y_ion_series has an entry Y0 equal to peptide_mass and an entry
\* Y(intact) equal to peptide_mass + glycan.mass.
C4_Y0AndYIntact ==
    Returned("generate_y_ion_series") =>
        /\ <<"Y0">> \in DOMAIN result
        /\ result[<<"Y0">>] = args.peptide_mass
        /\ <<"Y(intact)">> \in DOMAIN result
        /\ result[<<"Y(intact)">>] = args.peptide_mass + args.glycan.mass

\* C4, amended: generate_y_ion_series always returns Y0 = peptide_mass.  The
\* intact glycopeptide, peptide_mass + glycan.mass (+ tmt_mass when
\* tmt_on_glycan is set), is the entry Y(intact) for every glycan type other
\* than O-GlcNAc and O-GalNAc; for these two it is the entry Y1, and no entry
\* Y(intact) is returned.
C4_Y0AndIntactEntry ==
    Returned("generate_y_ion_series") =>
        LET intact == args.peptide_mass + args.glycan.mass
                        + (IF args.tmt_on_glycan THEN args.tmt_mass ELSE 0)
        IN  /\ <<"Y0">> \in DOMAIN result
            /\ result[<<"Y0">>] = args.peptide_mass
            /\ IF args.glycan.glycan_type \in {"O-GlcNAc", "O-GalNAc"}
               THEN /\ <<"Y(intact)">> \notin DOMAIN result
                    /\ <<"Y1">> \in DOMAIN result
                    /\ result[<<"Y1">>] = intact
               ELSE /\ <<"Y(intact)">> \in DOMAIN result
                    /\ result[<<"Y(intact)">>] = intact

C4_Witness ==
    /\ Returned("generate_y_ion_series")
    /\ args.glycan.glycan_type = "O-GlcNAc"
    /\ ~args.tmt_on_glycan
    /\ <<"Y(intact)">> \notin DOMAIN result
    /\ result[<<"Y0">>] = args.peptide_mass
    /\ result[<<"Y1">>] = args.peptide_mass + args.glycan.mass

-----------------------------------------------------------------------------
(* C5 *)

\* the <<key, glycan>> items of the reference set a glycan_type selects
SelectedEntries(glycan_type) ==
    (IF glycan_type \in {"O-glycan", "all"}
     THEN {O_GLYCAN_COMPOSITIONS[i] : i \in DOMAIN O_GLYCAN_COMPOSITIONS} ELSE {})
    \cup
    (IF glycan_type \in {"N-glycan", "all"}
     THEN {N_GLYCAN_COMPOSITIONS[i] : i \in DOMAIN N_GLYCAN_COMPOSITIONS} ELSE {})

\* C5: identify_glycan_from_mass returns exactly the entries of the selected
\* reference set with |mass - entry.mass| <= tol (the boundary included), each
\* once and with that absolute error, in order of non-decreasing error.
C5_MatchesWithinToleranceSorted ==
    (Returned("identify_glycan_from_mass")
        /\ args.glycan_type \in {"O-glycan", "N-glycan", "all"}) =>
        LET within == {e \in SelectedEntries(args.glycan_type) :
                          Abs(args.mass - e[2].mass) <= args.tolerance_da}
        IN  /\ {result[i] : i \in DOMAIN result}
                 = {<<e[1], e[2], Abs(args.mass - e[2].mass)>> : e \in within}
            /\ Len(result) = Cardinality(within)
            /\ \A i \in 1..(Len(result) - 1) : result[i][3] <= result[i + 1][3]

C5_Witness ==
    /\ Returned("identify_glycan_from_mass")
    /\ args.glycan_type = "all"
    /\ args.tolerance_da > 0
    /\ Len(result) >= 2
    /\ \E i \in DOMAIN result : result[i][3] = args.tolerance_da

-----------------------------------------------------------------------------
(* C6 *)

\* the record identify_crosslink_stubs appends for stub s and observation i
StubRecord(crosslinker, observed_masses, peptide_mass, s, i) ==
    <<crosslinker.stub_masses[s][1], observed_masses[i],
      Abs(observed_masses[i] - (peptide_mass + crosslinker.stub_masses[s][2]))>>

\* C6: for a cleavable crosslinker identify_crosslink_stubs returns one record
\* (stub name, observed mass, error) for every stub and every element of
\* observed_masses with |observed - (peptide_mass + stub_mass)| <= tolerance_da,
\* and no other record; for a non-cleavable crosslinker it returns the empty
\* list.
C6_StubMatches ==
    Returned("identify_crosslink_stubs") =>
        LET x == args.crosslinker
            obs == args.observed_masses
            Rec(h) == StubRecord(x, obs, args.peptide_mass, h[1], h[2])
            hits == {h \in (DOMAIN x.stub_masses) \X (DOMAIN obs) :
                        Rec(h)[3] <= args.tolerance_da}
        IN  IF x.cleavable
            THEN /\ Len(result) = Cardinality(hits)
                 /\ \A i \in DOMAIN result : \E h \in hits : result[i] = Rec(h)
                 /\ \A h \in hits :
                        Cardinality({i \in DOMAIN result : result[i] = Rec(h)})
                            = Cardinality({g \in hits : Rec(g) = Rec(h)})
            ELSE result = <<>>

C6_Witness ==
    /\ Returned("identify_crosslink_stubs")
    /\ args.crosslinker.name = "DSSO"
    /\ args.observed_masses = <<Fine(10540100), Fine(10859800)>>
    /\ args.tolerance_da = Fine(500)
    /\ Len(result) = 2
    /\ result[1][1] = "alkene"
    /\ result[2][1] = "thiol"

-----------------------------------------------------------------------------
(* C7 *)

\* C7: every crosslinker of CROSSLINKERS (DSSO, DSBSO, BS3, DSS) has a
\* non-empty stub_masses if and only if it is cleavable; BS3 and DSS have
\* empty stub tables.
C7_StubsIffCleavable ==
    Returned("CROSSLINKERS[]") =>
        /\ args.key \in {"DSSO", "DSBSO", "BS3", "DSS"}
        /\ result.stub_masses # <<>> <=> result.cleavable
        /\ args.key \in {"BS3", "DSS"} => result.stub_masses = <<>>

C7_Witness ==
    /\ Returned("CROSSLINKERS[]")
    /\ args.key = "BS3"
    /\ ~result.cleavable
    /\ result.stub_masses = <<>>

-----------------------------------------------------------------------------
(* C8, C9, C10 *)

StubNames(prefix) == {<<prefix \o "-A">>, <<prefix \o "-T">>, <<prefix \o "-S">>}

\* C8: for a cleavable crosslinker generate_crosslink_fragments gives each
\* peptide the three neutral stub-modified masses: peptide mass + the alkene,
\* thiol and sulfenic stub mass, as A, T and S (DSSO, 1000.0: alpha-A =
\* 1054.0106, alpha-T = 1085.9826).
C8_StubModifiedMasses ==
    (Returned("generate_crosslink_fragments") /\ args.crosslinker.cleavable) =>
        LET stub(n) == Lookup(args.crosslinker.stub_masses, n)
            p1 == args.peptide1_mass
            p2 == args.peptide2_mass
        IN  /\ {n \in DOMAIN result.peptide1 : Len(n) = 1} = StubNames("α")
            /\ {n \in DOMAIN result.peptide2 : Len(n) = 1} = StubNames("β")
            /\ result.peptide1[<<"α-A">>] = p1 + stub("alkene")
            /\ result.peptide1[<<"α-T">>] = p1 + stub("thiol")
            /\ result.peptide1[<<"α-S">>] = p1 + stub("sulfenic")
            /\ result.peptide2[<<"β-A">>] = p2 + stub("alkene")
            /\ result.peptide2[<<"β-T">>] = p2 + stub("thiol")
            /\ result.peptide2[<<"β-S">>] = p2 + stub("sulfenic")
            /\ (args.crosslinker.name = "DSSO" /\ p1 = Fine(10000000)) =>
                   /\ result.peptide1[<<"α-A">>] = Fine(10540106)
                   /\ result.peptide1[<<"α-T">>] = Fine(10859826)

C8_Witness ==
    /\ Returned("generate_crosslink_fragments")
    /\ args.crosslinker.name = "DSSO"
    /\ args.peptide1_mass = Fine(10000000)
    /\ args.peptide2_mass = Fine(12000000)
    /\ args.precursor_charge = 4
    /\ result.peptide1[<<"α-A">>] = Fine(10540106)
    /\ result.peptide2[<<"β-T">>] = Fine(12859826)

\* v is (mass + z x PROTON) / z, rounded down to the unit
IsChargedMz(v, mass, z) ==
    /\ z * v <= mass + z * PROTON
    /\ mass + z * PROTON < z * v + z

\* C9: for a cleavable crosslinker the charged entries of each peptide are
\* exactly one entry per (stub-modified neutral mass M, charge z), z in
\* 1..min(precursor_charge - 1, 3), each with value (M + z x 1.007276) / z;
\* there is no other charged entry, and none when precursor_charge <= 1.
C9_ChargedEntries ==
    (Returned("generate_crosslink_fragments") /\ args.crosslinker.cleavable) =>
        \A grp \in {<<"α", result.peptide1>>, <<"β", result.peptide2>>} :
            LET d == grp[2]
                zs == 1..Min(args.precursor_charge - 1, 3)
            IN  /\ {n \in DOMAIN d : HasPlus(n)}
                     = {Append(b, ChargePart(z)) : b \in StubNames(grp[1]), z \in zs}
                /\ \A b \in StubNames(grp[1]), z \in zs :
                       IsChargedMz(d[Append(b, ChargePart(z))], d[b], z)

\* C10: for a non-cleavable crosslinker generate_crosslink_fragments gives the
\* single intact mass peptide1_mass + peptide2_mass + intact_mass, one entry
\* (intact + z x 1.007276) / z for each z in 1..precursor_charge and nothing
\* else; the peptide1, peptide2 and diagnostic groups are empty.
C10_NonCleavableIntact ==
    (Returned("generate_crosslink_fragments") /\ ~args.crosslinker.cleavable) =>
        LET intact == args.peptide1_mass + args.peptide2_mass
                        + args.crosslinker.intact_mass
            zs == 1..args.precursor_charge
        IN  /\ DOMAIN result.precursor
                 = {<<"intact">>} \cup {<<"intact", ChargePart(z)>> : z \in zs}
            /\ result.precursor[<<"intact">>] = intact
            /\ \A z \in zs :
                   IsChargedMz(result.precursor[<<"intact", ChargePart(z)>>], intact, z)
            /\ result.peptide1 = EmptyDict
            /\ result.peptide2 = EmptyDict
            /\ result.diagnostic = EmptyDict

C10_Witness ==
    /\ Returned("generate_crosslink_fragments")
    /\ args.crosslinker.name = "BS3"
    /\ args.peptide1_mass = Fine(10000000)
    /\ args.peptide2_mass = Fine(12000000)
    /\ args.precursor_charge = 3
    /\ result.precursor[<<"intact">>] = Fine(23380681)
    /\ Cardinality(DOMAIN result.precursor) = 4

-----------------------------------------------------------------------------
(* C11, C12, C13: peak matching in the "Annotate Spectrum" handler *)

\* the handler got as far as matching the oxonium ions
Matched ==
    /\ Returned("Annotate Spectrum")
    /\ args.analysis_type = "Glycopeptide"
    /\ "error" \notin DOMAIN result

\* |error| <= tolerance in the selected unit; for ppm,
\* |mz - theo| x 1e6 <= tolerance x theo
WithinTolerance(mz, theo, tolerance_unit, tolerance) ==
    IF tolerance_unit = "ppm"
    THEN Abs(mz - theo) <= (tolerance * theo) \div 1000000
    ELSE Abs(mz - theo) <= tolerance

\* |error| < tolerance in the selected unit
InsideTolerance(mz, theo, tolerance_unit, tolerance) ==
    IF tolerance_unit = "ppm"
    THEN tolerance * theo >= 1
         /\ Abs(mz - theo) <= (tolerance * theo - 1) \div 1000000
    ELSE Abs(mz - theo) < tolerance

\* the matched records of the ion called name
RecordsOf(name) == {j \in DOMAIN result.matched_ions : result.matched_ions[j] = name}

\* C11: a theoretical ion matches an observed peak if and only if
\* |error| <= tolerance in the selected unit, the boundary |error| = tolerance
\* included: an ion has a matched record exactly when some peak lies within
\* the tolerance, and the peak of the record lies within it.
C11_MatchIffWithinTolerance ==
    Matched =>
        \A k \in DOMAIN OXONIUM_IONS_EXTENDED :
            LET ion_name == OXONIUM_IONS_EXTENDED[k][1]
                ion_mz == OXONIUM_IONS_EXTENDED[k][2]
            IN  /\ RecordsOf(ion_name) # {}
                     <=> \E p \in DOMAIN result.peaks :
                            WithinTolerance(result.peaks[p][1], ion_mz,
                                            args.tolerance_unit, args.tolerance)
                /\ \A j \in RecordsOf(ion_name) :
                       WithinTolerance(result.matched_mz[j], ion_mz,
                                       args.tolerance_unit, args.tolerance)

\* C12: matching yields at most one record per theoretical ion, and its peak
\* is the one with the smallest absolute error (no peak of the list is nearer
\* to the ion), whatever the order of the peak list.
C12_OneNearestPeakPerIon ==
    Matched =>
        \A k \in DOMAIN OXONIUM_IONS_EXTENDED :
            LET ion_name == OXONIUM_IONS_EXTENDED[k][1]
                ion_mz == OXONIUM_IONS_EXTENDED[k][2]
            IN  /\ Cardinality(RecordsOf(ion_name)) <= 1
                /\ \A j \in RecordsOf(ion_name), p \in DOMAIN result.peaks :
                       Abs(result.matched_mz[j] - ion_mz)
                           <= Abs(result.peaks[p][1] - ion_mz)

-----------------------------------------------------------------------------
(* C18 *)

\* the rows whose two cells are filled and positive
ValidRows(rows) ==
    {i \in DOMAIN rows :
        /\ rows[i][1] # <<>> /\ rows[i][2] # <<>>
        /\ rows[i][1][1] > 0 /\ rows[i][2][1] > 0}

\* the k-th valid row, counting from 1
KthValidRow(rows, k) ==
    CHOOSE i \in ValidRows(rows) : Cardinality({j \in ValidRows(rows) : j < i}) = k - 1

\* C18: the peaks that reach matching are the rows with m/z > 0 and
\* intensity > 0, in input order (rows with a missing or non-positive value
\* are excluded), and every matched peak is one of them; when no row
\* survives, nothing is matched and the outcome is the message 'No valid
\* peaks found in input'.
C18_OnlyValidPeaksInOrder ==
    Returned("Annotate Spectrum") =>
        IF ValidRows(args.rows) = {}
        THEN result = [error |-> "No valid peaks found in input"]
        ELSE /\ "error" \notin DOMAIN result
             /\ Len(result.peaks) = Cardinality(ValidRows(args.rows))
             /\ \A k \in DOMAIN result.peaks :
                    /\ result.peaks[k][1] > 0 /\ result.peaks[k][2] > 0
                    /\ result.peaks[k] = <<args.rows[KthValidRow(args.rows, k)][1][1],
                                           args.rows[KthValidRow(args.rows, k)][2][1]>>
             /\ \A j \in DOMAIN result.matched_mz :
                    \E k \in DOMAIN result.peaks :
                        result.matched_mz[j] = result.peaks[k][1]

C18_Witness ==
    /\ Returned("Annotate Spectrum")
    /\ args.rows = << << <<0>>, <<10000>> >>, << <<2040867>>, <<10000>> >> >>
    /\ args.analysis_type = "Glycopeptide"
    /\ result.peaks = << <<2040867, 10000>> >>
    /\ result.matched_mz = <<2040867>>

-----------------------------------------------------------------------------
(* C14, C15, C16: the false match rate *)

\* 0 <= n / d <= 1 for a quotient <<n, d>>, d > 0
InUnitInterval(q) == 0 <= q[1] /\ q[1] <= q[2]

\* C14: for any non-negative matched/total peak counts and matched/total
\* intensities, the returned false match rate satisfies 0 <= fmr_peaks <= 1
\* and 0 <= fmr_intensity <= 1.
C14_FmrWithinUnitInterval ==
    (/\ Returned("calculate_crosslink_fmr")
     /\ args.matched_peaks >= 0 /\ args.total_peaks >= 0
     /\ args.matched_intensity >= 0 /\ args.total_intensity >= 0)
    => /\ "raised" \notin DOMAIN result
       /\ InUnitInterval(result.fmr_peaks)
       /\ InUnitInterval(result.fmr_intensity)

\* C15: a degenerate ratio is 0 and never a division fault: fmr_peaks = 0
\* when total_peaks (its denominator) is zero and fmr_intensity = 0 when
\* total_intensity is zero, each whatever the other denominator is.
C15_ZeroDenominatorGivesZero ==
    Returned("calculate_crosslink_fmr") =>
        /\ "raised" \notin DOMAIN result
        /\ args.total_peaks = 0 => result.fmr_peaks = Ratio(0, 1)
        /\ args.total_intensity = 0 => result.fmr_intensity = Ratio(0, 1)

C15_Witness ==
    /\ Returned("calculate_crosslink_fmr")
    /\ args.total_peaks = 2 /\ args.matched_peaks = 1
    /\ args.total_intensity = 0 /\ args.matched_intensity = 5
    /\ result.fmr_peaks = Ratio(1, 2)
    /\ result.fmr_intensity = Ratio(0, 1)

\* C16: fmr_peaks is the mean matched-peak count over the shifted positions
\* divided by the unshifted matched-peak count, and fmr_intensity the same
\* ratio over summed matched intensity (0 when the denominator is 0):
\* fmr x unshifted x positions = sum over the shifted positions.
C16_FmrIsDecoyShiftRatio ==
    Returned("calculate_crosslink_fmr") =>
        /\ "raised" \notin DOMAIN result
        /\ IF args.matched_peaks = 0 THEN result.fmr_peaks[1] = 0
           ELSE result.fmr_peaks[1] * args.matched_peaks * args.shift_range
                    = result.fmr_peaks[2] * args.shifted.matched_peaks
        /\ IF args.matched_intensity = 0 THEN result.fmr_intensity[1] = 0
           ELSE result.fmr_intensity[1] * args.matched_intensity * args.shift_range
                    = result.fmr_intensity[2] * args.shifted.matched_intensity

-----------------------------------------------------------------------------
(* parse_modifications: the claim's reading of a modification string.        *)

\* the string of an Assigned Modifications cell, empty for a missing value
CellText(assigned_mods) == IF assigned_mods = <<>> THEN <<>> ELSE assigned_mods[1]

\* the places where a token of s ends or begins: before s, each comma, after s
CommaCuts(s) == {0} \cup {i \in DOMAIN s : s[i] = ","} \cup {Len(s) + 1}

\* the k-th smallest cut of s
KthCut(s, k) ==
    CHOOSE c \in CommaCuts(s) : Cardinality({d \in CommaCuts(s) : d < c}) = k - 1

TokenCount(s) == Cardinality(CommaCuts(s)) - 1

\* the k-th comma-separated token of s, blanks around it dropped
TokenAt(s, k) == Strip(SubSeq(s, KthCut(s, k) + 1, KthCut(s, k + 1) - 1))

\* t is a decimal number: digits with at most one point, blanks around it
IsNumber(t) ==
    \E a, b \in 1..Len(t) :
        /\ a <= b
        /\ \A i \in 1..Len(t) : (i < a \/ i > b) => t[i] = " "
        /\ \A i \in a..b : t[i] \in DOMAIN DecimalDigit \cup {"."}
        /\ \E i \in a..b : t[i] \in DOMAIN DecimalDigit
        /\ Cardinality({i \in a..b : t[i] = "."}) <= 1

\* p is <integer><residue>: k decimal digits, then characters that are not
IsIntegerResidue(p, k) ==
    /\ k \in 1..(Len(p) - 1)
    /\ \A i \in 1..k : p[i] \in DOMAIN DecimalDigit
    /\ \A i \in (k + 1)..Len(p) : p[i] \notin DOMAIN DecimalDigit

\* the token reads <position part>(<mass>) with its parentheses at o and c
ReadsAs(token, o, c) ==
    /\ o \in DOMAIN token /\ c \in DOMAIN token /\ o < c
    /\ token[o] = "(" /\ \A i \in 1..(o - 1) : token[i] # "("
    /\ token[c] = ")" /\ \A i \in 1..(c - 1) : token[i] # ")"
    /\ IsNumber(SubSeq(token, o + 1, c - 1))
    /\ LET p == SubSeq(token, 1, o - 1)
       IN  \/ p = <<"N-term">>
           \/ p = <<"C-term">>
           \/ \E k \in DOMAIN p : IsIntegerResidue(p, k)

Parsable(token) == \E o, c \in DOMAIN token : ReadsAs(token, o, c)

RECURSIVE Concat(_)
Concat(chars) == IF chars = <<>> THEN "" ELSE Head(chars) \o Concat(Tail(chars))

\* the Modification a parsable token stands for
ModificationOf(token) ==
    LET o == CHOOSE i \in DOMAIN token : \E c \in DOMAIN token : ReadsAs(token, i, c)
        c == CHOOSE i \in DOMAIN token : ReadsAs(token, o, i)
        p == SubSeq(token, 1, o - 1)
        m == FloatOf(SubSeq(token, o + 1, c - 1))
    IN  IF p = <<"N-term">> THEN [position |-> 0, residue |-> "N-term", mass |-> m]
        ELSE IF p = <<"C-term">> THEN [position |-> -1, residue |-> "C-term", mass |-> m]
        ELSE LET k == CHOOSE i \in DOMAIN p : IsIntegerResidue(p, i)
             IN  [position |-> IntOfDigits(SubSeq(p, 1, k)),
                  residue |-> Concat(SubSeq(p, k + 1, Len(p))), mass |-> m]

\* the indices of the parsable tokens of s
ParsableTokens(s) == {k \in 1..TokenCount(s) : Parsable(TokenAt(s, k))}

\* the j-th parsable token of s
KthParsable(s, j) ==
    TokenAt(s, CHOOSE k \in ParsableTokens(s) :
                   Cardinality({i \in ParsableTokens(s) : i < k}) = j - 1)

\* the call returned one Modification per parsable token of s, in input order
OnePerParsableToken(s) ==
    /\ "raised" \notin DOMAIN result
    /\ Len(result.mods) = Cardinality(ParsableTokens(s))
    /\ \A j \in 1..Cardinality(ParsableTokens(s)) :
          result.mods[j] = ModificationOf(KthParsable(s, j))
    /\ Len(result.mods) <= TokenCount(s)

\* C17: parse_modifications returns one Modification per parsable token, in
\* input order: N-term(m) at position 0, C-term(m) at position -1 and
\* <integer><residue>(m) at that integer with that residue; a token without
\* parentheses, with a mass that is not a number, or without a position or a
\* residue is skipped without an error, so the output is never longer than the
\* list of tokens.
C17_OneModificationPerParsableToken ==
    Returned("parse_modifications") => OnePerParsableToken(CellText(args.assigned_mods))

\* the same, for the strings whose digit characters are all decimal digits
C17_WithDecimalDigitsOnly ==
    (Returned("parse_modifications")
        /\ \A i \in DOMAIN CellText(args.assigned_mods) : CellText(args.assigned_mods)[i] # "²")
    => OnePerParsableToken(CellText(args.assigned_mods))

-----------------------------------------------------------------------------
(* The backbone ion series.                                                  *)

\* the ions of a returned series at charge z
IonsAtCharge(z) == SelectSeq(result, LAMBDA ion : ion.charge = z)

\* the series holds, at charge z, one ion for each index 1..n-1 and no other
IndexedOneToNMinusOne(ion_type, z, n) ==
    LET ions == IonsAtCharge(z)
    IN  /\ Len(ions) = n - 1
        /\ \A k \in 1..(n - 1) :
              Cardinality({i \in DOMAIN ions : ions[i].ion_number = k}) = 1
        /\ \A i \in DOMAIN ions : ions[i].ion_type = ion_type

\* C19: for a peptide of length n with no modifications, the b-ion series at
\* charge 1 and the y-ion series at charge 1 each contain exactly n-1 ions,
\* indexed 1..n-1.
C19_BackboneSeriesHaveNMinusOneIons ==
    /\ (Returned("calculate_b_ions") /\ args.modifications = <<>> /\ (\E j \in DOMAIN args.charges : args.charges[j] = 1))
          => IndexedOneToNMinusOne("b", 1, Len(args.peptide))
    /\ (Returned("calculate_y_ions") /\ args.modifications = <<>> /\ (\E j \in DOMAIN args.charges : args.charges[j] = 1))
          => IndexedOneToNMinusOne("y", 1, Len(args.peptide))

\* "PEPTIDE" without modifications at charge 1: six b ions
C19_Witness ==
    /\ Returned("calculate_b_ions")
    /\ args.peptide = <<"P", "E", "P", "T", "I", "D", "E">>
    /\ args.modifications = <<>>
    /\ args.charges = <<1>>
    /\ Len(result) = 6

-----------------------------------------------------------------------------
(* The N-glycan Y ions.                                                      *)

\* C20: generate_n_glycan_y_ions always returns a Y(intact) ion, whose mass is
\* peptide_mass plus the sum of count x monosaccharide mass over every symbol
\* of the given composition.
C20_IntactIsPeptidePlusWholeComposition ==
    Returned("generate_n_glycan_y_ions") =>
        /\ <<"Y(intact)">> \in DOMAIN result
        /\ result[<<"Y(intact)">>]
               = args.peptide_mass
                     + SumComposition(args.glycan_composition, DOMAIN args.glycan_composition)

\* the same, for the compositions of HexNAc, Hex, Fuc and NeuAc only
C20_ForTheFourMonosaccharidesRead ==
    (Returned("generate_n_glycan_y_ions")
        /\ DOMAIN args.glycan_composition \subseteq {"HexNAc", "Hex", "Fuc", "NeuAc"})
    => /\ <<"Y(intact)">> \in DOMAIN result
       /\ result[<<"Y(intact)">>]
              = args.peptide_mass
                    + SumComposition(args.glycan_composition, DOMAIN args.glycan_composition)

\* the count of a monosaccharide in a composition, 0 when it is not named
CountIn(composition, mono) == IF mono \in DOMAIN composition THEN composition[mono] ELSE 0

\* the returned dict has the entry `name' exactly when `present', with `mass'
EmittedIff(name, present, mass) ==
    /\ name \in DOMAIN result <=> present
    /\ present => result[name] = mass

\* C21: generate_n_glycan_y_ions emits the core ladder by composition
\* thresholds: Y0 always (peptide_mass); Y1 (+1 HexNAc) iff HexNAc >= 1; Y2
\* (+2 HexNAc) iff HexNAc >= 2; Y3 (+2 HexNAc +1 Hex) iff HexNAc >= 2 and
\* Hex >= 1; Y4 (+2 HexNAc +2 Hex) iff HexNAc >= 2 and Hex >= 2; Y(core)
\* (+2 HexNAc +3 Hex) iff HexNAc >= 2 and Hex >= 3.
C21_CoreLadderByThresholds ==
    Returned("generate_n_glycan_y_ions") =>
        LET n_hexnac == CountIn(args.glycan_composition, "HexNAc")
            n_hex == CountIn(args.glycan_composition, "Hex")
            hexnac == MONOSACCHARIDE_MASSES["HexNAc"]
            hex == MONOSACCHARIDE_MASSES["Hex"]
            peptide == args.peptide_mass
        IN  /\ EmittedIff(<<"Y0">>, TRUE, peptide)
            /\ EmittedIff(<<"Y1">>, n_hexnac >= 1, peptide + hexnac)
            /\ EmittedIff(<<"Y2">>, n_hexnac >= 2, peptide + 2 * hexnac)
            /\ EmittedIff(<<"Y3">>, n_hexnac >= 2 /\ n_hex >= 1, peptide + 2 * hexnac + hex)
            /\ EmittedIff(<<"Y4">>, n_hexnac >= 2 /\ n_hex >= 2, peptide + 2 * hexnac + 2 * hex)
            /\ EmittedIff(<<"Y(core)">>, n_hexnac >= 2 /\ n_hex >= 3,
                          peptide + 2 * hexnac + 3 * hex)

\* the ladder stops where the composition does:
\* HexNAc2 alone: Y2 and no Y3
C21_Witness ==
    /\ Returned("generate_n_glycan_y_ions")
    /\ CountIn(args.glycan_composition, "HexNAc") = 2
    /\ CountIn(args.glycan_composition, "Hex") = 0
    /\ <<"Y2">> \in DOMAIN result
    /\ <<"Y3">> \notin DOMAIN result

\* the compositions contained in `composition': no symbol counted higher
ContainedIn(composition) ==
    LET most == IF DOMAIN composition = {} THEN 0
                ELSE CHOOSE n \in {composition[m] : m \in DOMAIN composition} :
                         \A m \in DOMAIN composition : composition[m] <= n
    IN  {part \in [DOMAIN composition -> 0..most] :
            \A m \in DOMAIN composition : part[m] <= composition[m]}

\* the entry `name' of the returned dict is the peptide with a part of
\* `composition' attached
CarriesPartOf(name, composition, peptide_mass) ==
    \E part \in ContainedIn(composition) :
        result[name] = peptide_mass + SumComposition(part, DOMAIN part)

\* no entry of the returned dict that is not a water loss is heavier than Y(intact)
NoneAboveIntact ==
    <<"Y(intact)">> \in DOMAIN result =>
        \A name \in DOMAIN result :
            name[Len(name)] # "-H2O" => result[name] <= result[<<"Y(intact)">>]

\* the Y ions of generate_n_glycan_y_ions carry parts of the composition
C22_NGlycanIonsWithinComposition ==
    Returned("generate_n_glycan_y_ions") =>
        /\ \A name \in DOMAIN result \ {<<"Y(intact)">>} :
              CarriesPartOf(name, args.glycan_composition, args.peptide_mass)
        /\ NoneAboveIntact

\* the Y ions of generate_y_ion_series are no heavier than the intact one
C22_SeriesIonsWithinIntact ==
    Returned("generate_y_ion_series") => NoneAboveIntact

\* C22: every Y ion emitted by generate_y_ion_series and by
\* generate_n_glycan_y_ions carries a glycan portion that is contained in the
\* glycan composition: antenna ions appear only when the HexNAc and Hex counts
\* support them, and no Y ion that is not a water loss has a mass greater than
\* Y(intact).
C22_YIonsWithinComposition ==
    C22_NGlycanIonsWithinComposition /\ C22_SeriesIonsWithinIntact

-----------------------------------------------------------------------------
(* Water-loss companions of the Y-ion series.                                *)

\* the name ends in -H2O
IsWaterLoss(name) == name[Len(name)] = "-H2O"

\* C23: in generate_y_ion_series with include_water_loss true, every entry
\* whose name does not end in -H2O has a companion entry <name>-H2O whose mass
\* is exactly 18.0106 lower, for every glycan type; with include_water_loss
\* false no entry name ends in -H2O.
C23_WaterLossCompanions ==
    Returned("generate_y_ion_series") =>
        IF args.include_water_loss
        THEN \A name \in DOMAIN result :
                 ~IsWaterLoss(name) =>
                     /\ Append(name, "-H2O") \in DOMAIN result
                     /\ result[Append(name, "-H2O")] = result[name] - 180106
        ELSE \A name \in DOMAIN result : ~IsWaterLoss(name)

\* an N-glycan with water loss: the core and the intact ion have companions
C23_Witness ==
    /\ Returned("generate_y_ion_series")
    /\ args.include_water_loss
    /\ args.glycan.glycan_type = "N-glycan"
    /\ <<"Y(core)", "-H2O">> \in DOMAIN result
    /\ <<"Y(intact)", "-H2O">> \in DOMAIN result

-----------------------------------------------------------------------------
(* Neutral losses of the crosslink fragments.                                *)

\* the name is a neutral-loss entry
IsLossName(name) == name[Len(name)] \in {"-H2O", "-NH3"}

\* C24: in generate_crosslink_fragments for a cleavable crosslinker the
\* neutral-loss variants come from the three neutral stub-modified masses of
\* each peptide only: with include_neutral_losses true each of them has exactly
\* one -H2O entry (mass - 18.0106) and one -NH3 entry (mass - 17.0265) and no
\* charged entry has a loss variant; with include_neutral_losses false there is
\* no loss entry.
C24_LossesOnNeutralMassesOnly ==
    (Returned("generate_crosslink_fragments") /\ args.crosslinker.cleavable) =>
        \A grp \in {<<"α", result.peptide1>>, <<"β", result.peptide2>>} :
            LET d == grp[2]
                losses == {n \in DOMAIN d : IsLossName(n)}
            IN  IF args.include_neutral_losses
                THEN /\ losses = {<<b[1], loss>> : b \in StubNames(grp[1]),
                                                   loss \in {"-H2O", "-NH3"}}
                     /\ \A b \in StubNames(grp[1]) :
                           /\ d[<<b[1], "-H2O">>] = d[b] - Fine(180106)
                           /\ d[<<b[1], "-NH3">>] = d[b] - Fine(170265)
                ELSE losses = {}

\* DSSO at precursor charge 3 with neutral losses: charged entries exist and
\* the losses are on the neutral masses
C24_Witness ==
    /\ Returned("generate_crosslink_fragments")
    /\ args.crosslinker.name = "DSSO"
    /\ args.precursor_charge = 3
    /\ args.include_neutral_losses
    /\ <<"α-A", "+2">> \in DOMAIN result.peptide1
    /\ <<"α-A", "-H2O">> \in DOMAIN result.peptide1
    /\ <<"α-A", "+2", "-H2O">> \notin DOMAIN result.peptide1

-----------------------------------------------------------------------------
(* Fucosylated and sialylated variants of the N-glycan Y ions.               *)

\* the stems that can carry a fucose
FucoseStems == {"Y1", "Y2", "Y3", "Y4", "Y(core)", "Y(core+1arm)", "Y(bi)"}

\* the name has the part F
IsFucosylated(name) == \E i \in DOMAIN name : name[i] = "F"

\* C25: in generate_n_glycan_y_ions, when the composition has Fuc >= 1 and
\* include_fucose_variants is true, every emitted ion among Y1, Y2, Y3, Y4,
\* Y(core), Y(core+1arm) and Y(bi) has a fucosylated companion (name + 'F')
\* whose mass is exactly one Fuc (146.0579) higher; when Fuc = 0 or
\* include_fucose_variants is false, no fucosylated variant is emitted.
C25_FucosylatedCompanions ==
    Returned("generate_n_glycan_y_ions") =>
        IF CountIn(args.glycan_composition, "Fuc") >= 1 /\ args.include_fucose_variants
        THEN \A stem \in FucoseStems :
                 <<stem>> \in DOMAIN result =>
                     /\ <<stem, "F">> \in DOMAIN result
                     /\ result[<<stem, "F">>] = result[<<stem>>] + 1460579
        ELSE \A name \in DOMAIN result : ~IsFucosylated(name)

\* a fucosylated biantennary glycan: Y1F and Y(bi)F are emitted
C25_Witness ==
    /\ Returned("generate_n_glycan_y_ions")
    /\ CountIn(args.glycan_composition, "Fuc") = 1
    /\ args.include_fucose_variants
    /\ <<"Y(bi)", "F">> \in DOMAIN result
    /\ <<"Y1", "F">> \in DOMAIN result

\* the name has a part S1 or S2
IsSialylated(name) == \E i \in DOMAIN name : name[i] \in {"S1", "S2"}

\* the emitted core and antenna ions that are not sialylated
CoreAndAntennaIons ==
    {name \in DOMAIN result :
        name[1] \in {"Y(core)", "Y(core+1arm)", "Y(bi)"} /\ ~IsSialylated(name)}

\* C26: in generate_n_glycan_y_ions sialylated variants are layered only onto
\* core and antenna ions (names containing 'core' or 'bi'): with NeuAc = 0
\* none is emitted; with NeuAc >= 1 each such ion X has X+'S1' = X + 291.0954;
\* with NeuAc >= 2 each such unsialylated ion X also has X+'S2' = X + 2 x
\* 291.0954; no variant is built on an already sialylated ion, and Y0..Y4
\* never get sialylated variants.
C26_SialylatedVariants ==
    Returned("generate_n_glycan_y_ions") =>
        LET n_neuac == CountIn(args.glycan_composition, "NeuAc")
        IN  /\ n_neuac = 0 => \A name \in DOMAIN result : ~IsSialylated(name)
            /\ n_neuac >= 1 =>
                  \A x \in CoreAndAntennaIons :
                      /\ Append(x, "S1") \in DOMAIN result
                      /\ result[Append(x, "S1")] = result[x] + 2910954
            /\ n_neuac >= 2 =>
                  \A x \in CoreAndAntennaIons :
                      /\ Append(x, "S2") \in DOMAIN result
                      /\ result[Append(x, "S2")] = result[x] + 2 * 2910954
            /\ \A name \in DOMAIN result :
                  IsSialylated(name) =>
                      \E x \in CoreAndAntennaIons :
                          name \in {Append(x, "S1"), Append(x, "S2")}

\* a biantennary glycan with two NeuAc and a fucose: Y(core)FS1 and Y(bi)S2
\* are emitted, beside Y4
C26_Witness ==
    /\ Returned("generate_n_glycan_y_ions")
    /\ CountIn(args.glycan_composition, "NeuAc") = 2
    /\ <<"Y(core)", "F", "S1">> \in DOMAIN result
    /\ <<"Y(bi)", "S2">> \in DOMAIN result
    /\ <<"Y4">> \in DOMAIN result

-----------------------------------------------------------------------------
(* No operation writes to the shared tables or to its arguments.             *)

\* the core operations of the glycan library
CoreOperations ==
    {"from_string", "generate_y_ion_series", "generate_n_glycan_y_ions",
     "identify_glycan_from_mass", "generate_crosslink_fragments",
     "identify_crosslink_stubs"}

-----------------------------------------------------------------------------
(* The two Y-ion generators on the same N-glycan.                            *)

\* the glycan is an N-glycan of HexNAc, Hex, Fuc and NeuAc, each counted at
\* least once where it is named, with the mass from_string gives it
IsParsedNGlycan(glycan) ==
    /\ glycan.glycan_type = "N-glycan"
    /\ DOMAIN glycan.composition \subseteq {"HexNAc", "Hex", "Fuc", "NeuAc"}
    /\ \A mono \in DOMAIN glycan.composition : glycan.composition[mono] >= 1
    /\ glycan.mass = SumComposition(glycan.composition, DOMAIN glycan.composition)

\* the dicts a and b have the entry `name' together, with one mass
SameEntry(a, b, name) ==
    /\ name \in DOMAIN a <=> name \in DOMAIN b
    /\ name \in DOMAIN a => a[name] = b[name]

\* C28: for an N-glycan built by from_string from HexNAc, Hex, Fuc and NeuAc
\* counts that are all at least 1 where present, generate_y_ion_series (water
\* loss off, no TMT) and generate_n_glycan_y_ions agree: each of Y0, Y1, Y2,
\* Y(core) and Y(intact) is emitted by one generator iff it is emitted by the
\* other, with the same mass.
C28_GeneratorsAgree ==
    (Returned("generate_y_ion_series") /\ IsParsedNGlycan(args.glycan)
        /\ ~args.include_water_loss /\ ~args.tmt_on_glycan)
    => \A include_fucose_variants \in BOOLEAN :
           \A name \in {<<"Y0">>, <<"Y1">>, <<"Y2">>, <<"Y(core)">>, <<"Y(intact)">>} :
               SameEntry(result,
                         generate_n_glycan_y_ions(args.glycan.composition, args.peptide_mass,
                                                  include_fucose_variants),
                         name)

\* HexNAc1Hex1: both generators stop at Y1
C28_Witness ==
    /\ Returned("generate_y_ion_series")
    /\ IsParsedNGlycan(args.glycan)
    /\ ~args.include_water_loss /\ ~args.tmt_on_glycan
    /\ args.glycan.composition = ("HexNAc" :> 1) @@ ("Hex" :> 1)
    /\ <<"Y1">> \in DOMAIN result
    /\ <<"Y2">> \notin DOMAIN result

-----------------------------------------------------------------------------
(* The annotation summary.                                                   *)

\* C29: in the annotation summary the matched-ion count never exceeds the
\* number of valid peaks, so the coverage percentage (matched / total x 100)
\* lies in [0, 100], for every peak list, tolerance and unit.
C29_CoverageWithinHundred ==
    (Returned("Annotate Spectrum") /\ "error" \notin DOMAIN result) =>
        /\ Len(result.matched_ions) <= Len(result.peaks)
        /\ result.coverage >= 0
        /\ result.coverage <= 1000

-----------------------------------------------------------------------------
(* A symbol named more than once in a composition string.                    *)

\* g is the last group of its symbol in s
IsLastOfSymbol(s, g) ==
    \A h \in KnownGroups(s) : GroupSymbol(s, h) = GroupSymbol(s, g) => h[1] <= g[1]

\* C30: when a recognized symbol occurs in more than one <symbol><count> group
\* of a composition string, from_string keeps the count of its last occurrence
\* only (the counts are not summed) and computes the mass from that count:
\* "Hex2Hex3" has the composition {Hex: 3} and the mass of 3 Hex.
C30_LastOccurrenceWins ==
    Returned("from_string") =>
        /\ \A g \in KnownGroups(args.comp_string) :
              IsLastOfSymbol(args.comp_string, g) =>
                  /\ GroupSymbol(args.comp_string, g) \in DOMAIN result.composition
                  /\ result.composition[GroupSymbol(args.comp_string, g)]
                         = GroupCount(args.comp_string, g)
        /\ result.mass = MassOf(result.composition)
        /\ args.comp_string = <<"Hex", "2", "Hex", "3">> =>
              /\ result.composition = ("Hex" :> 3)
              /\ result.mass = 3 * 1620528

\* "Hex2Hex3" parsed
C30_Witness ==
    /\ Returned("from_string")
    /\ args.comp_string = <<"Hex", "2", "Hex", "3">>
    /\ result.composition = ("Hex" :> 3)
    /\ result.mass = 4861584

====
